---- MODULE Spec2Model ----
(***************************************************************************)
(* Model of gwt (nicwestvold/gwt): the argument transformer of `gwt add`   *)
(* (git.buildAddArgs) and the configuration store (config.Load / Save).    *)
(*                                                                         *)
(* Go strings are modelled as sequences of one-character strings, so that  *)
(* strings.HasPrefix, strings.Contains, strings.SplitN, strings.ReplaceAll *)
(* and filepath.Join are computed character by character.                  *)
(***************************************************************************)
EXTENDS Integers, Sequences, FiniteSets, TLC

(***************************************************************************)
(* Bounds of the model.                                                    *)
(***************************************************************************)
MaxArgs == 3

(***************************************************************************)
(* Go standard library: package strings.                                   *)
(***************************************************************************)
HasPrefix(s, prefix) ==
    /\ Len(s) >= Len(prefix)
    /\ SubSeq(s, 1, Len(prefix)) = prefix

\* strings.Index, 1-based; 0 when substr does not occur in s.
Index(s, substr) ==
    LET hits == {k \in 1..(Len(s) - Len(substr) + 1) :
                    SubSeq(s, k, k + Len(substr) - 1) = substr}
    IN  IF hits = {} THEN 0
        ELSE CHOOSE k \in hits : \A m \in hits : k <= m

Contains(s, substr) == Index(s, substr) > 0

\* strings.SplitN(s, sep, 2): at most two parts, cut at the first sep.
SplitN2(s, sep) ==
    LET k == Index(s, sep)
    IN  IF k = 0 THEN <<s>>
        ELSE <<SubSeq(s, 1, k - 1), SubSeq(s, k + Len(sep), Len(s))>>

RECURSIVE ReplaceAll(_, _, _)
ReplaceAll(s, old, new) ==
    IF s = <<>> THEN <<>>
    ELSE IF HasPrefix(s, old)
         THEN new \o ReplaceAll(SubSeq(s, Len(old) + 1, Len(s)), old, new)
         ELSE <<Head(s)>> \o ReplaceAll(Tail(s), old, new)

(***************************************************************************)
(* Go standard library: package path/filepath (Unix separator).            *)
(***************************************************************************)
Separator == <<"/">>

\* The elements of a path between separators ("" between two adjacent ones).
RECURSIVE SplitPath(_, _, _)
SplitPath(path, cur, acc) ==
    IF path = <<>> THEN Append(acc, cur)
    ELSE IF Head(path) = "/"
         THEN SplitPath(Tail(path), <<>>, Append(acc, cur))
         ELSE SplitPath(Tail(path), Append(cur, Head(path)), acc)

RECURSIVE JoinElems(_)
JoinElems(elems) ==
    IF elems = <<>> THEN <<>>
    ELSE IF Len(elems) = 1 THEN elems[1]
         ELSE elems[1] \o Separator \o JoinElems(Tail(elems))

\* The element stack of filepath.Clean: "" and "." are dropped, ".." removes
\* the element before it, is dropped at the root of a rooted path and is kept
\* at the start of a relative one.
RECURSIVE CleanElems(_, _, _)
CleanElems(elems, rooted, out) ==
    IF elems = <<>> THEN out
    ELSE LET e == Head(elems)
             rest == Tail(elems)
         IN  IF e = <<>> \/ e = <<".">>
             THEN CleanElems(rest, rooted, out)
             ELSE IF e = <<".", ".">>
                  THEN IF out # <<>> /\ out[Len(out)] # <<".", ".">>
                       THEN CleanElems(rest, rooted, SubSeq(out, 1, Len(out) - 1))
                       ELSE IF rooted
                            THEN CleanElems(rest, rooted, out)
                            ELSE CleanElems(rest, rooted, Append(out, e))
                  ELSE CleanElems(rest, rooted, Append(out, e))

Clean(path) ==
    LET rooted == HasPrefix(path, Separator)
        out == CleanElems(SplitPath(path, <<>>, <<>>), rooted, <<>>)
    IN  IF rooted THEN Separator \o JoinElems(out)
        ELSE IF out = <<>> THEN <<".">>
             ELSE JoinElems(out)

\* filepath.Join of two elements: empty elements are ignored, the rest are
\* joined with the separator and the result is cleaned.
Join(a, b) ==
    IF a = <<>> /\ b = <<>> THEN <<>>
    ELSE IF a = <<>> THEN Clean(b)
         ELSE IF b = <<>> THEN Clean(a)
              ELSE Clean(a \o Separator \o b)

(***************************************************************************)
(* The state.  `gwt add`: the call buildAddArgs(args, repoDir), the locals *)
(* of its scanning loop (scan) and its three results.                      *)
(***************************************************************************)
VARIABLES args, repoDir, pc, scan, gitArgs, worktreePath, err

addVars == <<args, repoDir, pc, scan, gitArgs, worktreePath, err>>

(***************************************************************************)
(* The state.  The configuration store: the content of <repo>/.gwt.json    *)
(* (cfgFile), the last call of config.Save or config.Load with what it was *)
(* given and what it returned (lastCall), and, when that call is a Load,   *)
(* the call made just before it (prevCall).                                *)
(***************************************************************************)
VARIABLES cfgFile, lastCall, prevCall

cfgVars == <<cfgFile, lastCall, prevCall>>

(***************************************************************************)
(* The state.  The origin remote of one repository: the values git holds   *)
(* for remote.origin.fetch, in file order (fetchConfig), and the last call *)
(* of Repo.ConfigureFetch with what it did and returned (fetchCall).       *)
(***************************************************************************)
VARIABLES fetchConfig, fetchCall

fetchVars == <<fetchConfig, fetchCall>>

(***************************************************************************)
(* The state.  Rendering of the hook: the HookData given (hookData) and    *)
(* what BuildCommand and Generate returned for it (rendered).              *)
(***************************************************************************)
VARIABLES hookData, rendered

renderVars == <<hookData, rendered>>

(***************************************************************************)
(* The state.  One hooks directory: whether it exists and the file         *)
(* post-checkout in it (hooksFs), and the last call of hook.Install with   *)
(* what it was given, what it found and what it returned (installCall).    *)
(***************************************************************************)
VARIABLES hooksFs, installCall

installVars == <<hooksFs, installCall>>

(***************************************************************************)
(* The state.  Shell escaping: the string given to shellEscape (escInput)  *)
(* and what it returned (escaped).                                         *)
(***************************************************************************)
VARIABLES escInput, escaped

escVars == <<escInput, escaped>>

(***************************************************************************)
(* The state.  ExitCode: the error given (exitInput) and the code returned *)
(* (exitResult).                                                           *)
(***************************************************************************)
VARIABLES exitInput, exitResult

exitVars == <<exitInput, exitResult>>

(***************************************************************************)
(* The state.  One invocation of the tool: the arguments after the program *)
(* name (osArgs), what the process finds around it (environ: the value of  *)
(* GWT_CD_FILE, the repository root NewRepo resolves to, and how a git     *)
(* child ends), and what the invocation did (cliResult).                   *)
(***************************************************************************)
VARIABLES osArgs, environ, cliResult

cliVars == <<osArgs, environ, cliResult>>

(***************************************************************************)
(* The state.  Repository resolution: the directory the tool is started in *)
(* and what git answers to each query of NewRepo (repoEnv), and what       *)
(* NewRepo returned (repoResult).                                          *)
(***************************************************************************)
VARIABLES repoEnv, repoResult

repoVars == <<repoEnv, repoResult>>

(***************************************************************************)
(* `gwt init` and `gwt clone`: the command line of one invocation and what *)
(* git and the file system will answer, the directory the command works on *)
(* with its remote.origin.fetch values and its hooks directory, and what   *)
(* the handler returned.                                                   *)
(***************************************************************************)
VARIABLES request, site, toolResult

toolVars == <<request, site, toolResult>>

(***************************************************************************)
(* The file copy of the earlier `gwt add`: the call being made with what   *)
(* git answers (copyInput), the files on disk (files) and what the call    *)
(* returned (copyResult).                                                  *)
(***************************************************************************)
VARIABLES copyInput, files, copyResult

copyVars == <<copyInput, files, copyResult>>

vars == <<addVars, cfgVars, fetchVars, renderVars, installVars, escVars, exitVars, cliVars, repoVars, toolVars, copyVars>>

\* What each component leaves alone: the variables of the other components.
addFrame ==
    <<cfgVars, fetchVars, renderVars, installVars, escVars,
      exitVars, cliVars, repoVars, toolVars, copyVars>>
cfgFrame ==
    <<addVars, fetchVars, renderVars, installVars, escVars,
      exitVars, cliVars, repoVars, toolVars, copyVars>>
fetchFrame ==
    <<addVars, cfgVars, renderVars, installVars, escVars,
      exitVars, cliVars, repoVars, toolVars, copyVars>>
renderFrame ==
    <<addVars, cfgVars, fetchVars, installVars, escVars,
      exitVars, cliVars, repoVars, toolVars, copyVars>>
installFrame ==
    <<addVars, cfgVars, fetchVars, renderVars, escVars,
      exitVars, cliVars, repoVars, toolVars, copyVars>>
escFrame ==
    <<addVars, cfgVars, fetchVars, renderVars, installVars,
      exitVars, cliVars, repoVars, toolVars, copyVars>>
exitFrame ==
    <<addVars, cfgVars, fetchVars, renderVars, installVars,
      escVars, cliVars, repoVars, toolVars, copyVars>>
cliFrame ==
    <<addVars, cfgVars, fetchVars, renderVars, installVars,
      escVars, exitVars, repoVars, toolVars, copyVars>>
repoFrame ==
    <<addVars, cfgVars, fetchVars, renderVars, installVars,
      escVars, exitVars, cliVars, toolVars, copyVars>>
toolFrame ==
    <<addVars, cfgVars, fetchVars, renderVars, installVars,
      escVars, exitVars, cliVars, repoVars, copyVars>>
copyFrame ==
    <<addVars, cfgVars, fetchVars, renderVars, installVars,
      escVars, exitVars, cliVars, repoVars, toolVars>>

(***************************************************************************)
(* Tokens of the `git worktree add` command line.                          *)
(***************************************************************************)
FlagB == <<"-", "b">>
FlagBigB == <<"-", "B">>
FlagOrphan == <<"-", "-", "o", "r", "p", "h", "a", "n">>
FlagReason == <<"-", "-", "r", "e", "a", "s", "o", "n">>
DashDash == <<"-", "-">>

valueFlags == {FlagB, FlagBigB, FlagOrphan, FlagReason}

branchFlags == {FlagB, FlagBigB, FlagOrphan}

\* The tokens the model draws argument lists from.
Tokens ==
    { <<>>, <<"a">>, <<"a", "/", "b">>, <<".">>, <<".", ".">>,
      FlagB, FlagBigB, FlagOrphan, FlagReason, DashDash, <<"-", "f">>,
      FlagOrphan \o <<"=">>,
      FlagOrphan \o <<"=", "a", "/", "b">>,
      FlagReason \o <<"=", "a">> }

ArgLists == UNION {[1..n -> Tokens] : n \in 0..MaxArgs}

\* Repository roots: Repo.Dir is absolute and clean (filepath.Abs, filepath.Dir).
Roots == { <<"/">>, <<"/", "r">> }

(***************************************************************************)
(* git.branchToDir                                                         *)
(***************************************************************************)
\* Mutant: the slashes of the branch name are kept.
branchToDir_KeepSlashes(branch) == branch

branchToDir(branch) == ReplaceAll(branch, <<"/">>, <<"-">>)

(***************************************************************************)
(* git.buildAddArgs: the scanning loop.  scan holds the loop's locals; i   *)
(* is the 1-based index of the next token to look at.                      *)
(***************************************************************************)
NoError == ""

InitScan ==
    [i |-> 1, flags |-> <<>>, positional |-> <<>>, branchFlag |-> <<>>,
     branchValue |-> <<>>, pastFlags |-> FALSE, err |-> NoError]

\* if pastFlags { positional = append(positional, arg); continue }
\* and the final positional = append(positional, arg)
AppendPositional(st, arg) ==
    [st EXCEPT !.positional = Append(@, arg), !.i = @ + 1]

\* if arg == "--" { pastFlags = true; continue }
EnterPositionalOnly(st) ==
    [st EXCEPT !.pastFlags = TRUE, !.i = @ + 1]

\* strings.HasPrefix(arg, "--") && strings.Contains(arg, "=")
IsFlagWithValue(arg) == HasPrefix(arg, DashDash) /\ Contains(arg, <<"=">>)

\* Mutant: --flag=value is recorded as a flag but its value is never captured.
RecordFlagWithValue_NoCapture(st, arg) ==
    [st EXCEPT !.flags = Append(@, arg), !.i = @ + 1]

\* the --flag=value branch
RecordFlagWithValue(st, arg) ==
    LET parts == SplitN2(arg, <<"=">>)
    IN  IF parts[1] \in branchFlags
        THEN [st EXCEPT !.branchFlag = parts[1], !.branchValue = parts[2],
                        !.flags = Append(@, arg), !.i = @ + 1]
        ELSE [st EXCEPT !.flags = Append(@, arg), !.i = @ + 1]

\* Mutant: the value of a value-taking flag is consumed but not passed on.
ConsumeValueFlag_DropValue(a, st) ==
    LET arg == a[st.i]
    IN  IF st.i + 1 > Len(a)
        THEN [st EXCEPT !.err = "requires a value"]
        ELSE IF arg \in branchFlags
             THEN [st EXCEPT !.branchFlag = arg, !.branchValue = a[st.i + 1],
                             !.flags = Append(@, arg), !.i = @ + 2]
             ELSE [st EXCEPT !.flags = Append(@, arg), !.i = @ + 2]

\* the valueFlags[arg] branch
ConsumeValueFlag(a, st) ==
    LET arg == a[st.i]
    IN  IF st.i + 1 > Len(a)
        THEN [st EXCEPT !.err = "requires a value"]
        ELSE IF arg \in branchFlags
             THEN [st EXCEPT !.branchFlag = arg, !.branchValue = a[st.i + 1],
                             !.flags = @ \o <<arg, a[st.i + 1]>>, !.i = @ + 2]
             ELSE [st EXCEPT !.flags = @ \o <<arg, a[st.i + 1]>>, !.i = @ + 2]

\* strings.HasPrefix(arg, "-")
IsFlag(arg) == HasPrefix(arg, <<"-">>)

RecordFlag(st, arg) ==
    [st EXCEPT !.flags = Append(@, arg), !.i = @ + 1]

\* Mutant: the loop never looks at pastFlags.
LoopBody_IgnorePastFlags(a, st) ==
    LET arg == a[st.i]
    IN  IF arg = DashDash THEN EnterPositionalOnly(st)
        ELSE IF IsFlagWithValue(arg) THEN RecordFlagWithValue(st, arg)
        ELSE IF arg \in valueFlags THEN ConsumeValueFlag(a, st)
        ELSE IF IsFlag(arg) THEN RecordFlag(st, arg)
        ELSE AppendPositional(st, arg)

\* One iteration of the loop over args.
LoopBody(a, st) ==
    LET arg == a[st.i]
    IN  IF st.pastFlags THEN AppendPositional(st, arg)
        ELSE IF arg = DashDash THEN EnterPositionalOnly(st)
        ELSE IF IsFlagWithValue(arg) THEN RecordFlagWithValue(st, arg)
        ELSE IF arg \in valueFlags THEN ConsumeValueFlag(a, st)
        ELSE IF IsFlag(arg) THEN RecordFlag(st, arg)
        ELSE AppendPositional(st, arg)

RECURSIVE ScanLoop(_, _)
ScanLoop(a, st) ==
    IF st.err # NoError \/ st.i > Len(a) THEN st
    ELSE ScanLoop(a, LoopBody(a, st))

(***************************************************************************)
(* git.buildAddArgs: after the loop.                                       *)
(***************************************************************************)
Failure(msg) == [gitArgs |-> <<>>, worktreePath |-> <<>>, err |-> msg]

\* Mutant: the branch is put before the directory.
AssembleArgs_BranchFirst(st, dir, branch) ==
    IF st.branchFlag # <<>>
    THEN st.flags \o <<dir>> \o st.positional
    ELSE st.flags \o <<branch, dir>>

\* if branchFlag != "" { flags..., dir, positional... } else { flags..., dir, branch }
AssembleArgs(st, dir, branch) ==
    IF st.branchFlag # <<>>
    THEN st.flags \o <<dir>> \o st.positional
    ELSE st.flags \o <<dir, branch>>

\* Mutant: a start-point after a branch-bearing flag is refused.
PositionalError_NoStartPoint(st) ==
    IF st.branchFlag # <<>>
    THEN IF Len(st.positional) >= 1 THEN "too many positional arguments"
         ELSE NoError
    ELSE IF Len(st.positional) = 0 THEN "requires a branch name"
         ELSE IF Len(st.positional) > 1 THEN "too many positional arguments"
              ELSE NoError

\* "" when the positional count is accepted, the error message otherwise.
PositionalError(st) ==
    IF st.branchFlag # <<>>
    THEN IF Len(st.positional) > 1 THEN "too many positional arguments"
         ELSE NoError
    ELSE IF Len(st.positional) = 0 THEN "requires a branch name"
         ELSE IF Len(st.positional) > 1 THEN "too many positional arguments"
              ELSE NoError

ResolveBranch(st) ==
    IF st.branchFlag # <<>> THEN st.branchValue ELSE st.positional[1]

Resolve(st, root) ==
    IF st.err # NoError THEN Failure(st.err)
    ELSE IF PositionalError(st) # NoError THEN Failure(PositionalError(st))
    ELSE LET branch == ResolveBranch(st)
             dir == branchToDir(branch)
         IN  [gitArgs |-> AssembleArgs(st, dir, branch),
              worktreePath |-> Join(root, dir),
              err |-> NoError]

\* The whole function.
buildAddArgs(a, root) ==
    IF Len(a) = 0 THEN Failure("requires a branch name")
    ELSE Resolve(ScanLoop(a, InitScan), root)

(***************************************************************************)
(* config.Config.  A Go slice is nil or holds elements: CopyFiles is a     *)
(* record of the two.                                                      *)
(***************************************************************************)
MaxCopyFiles == 2

NilSlice == [isNil |-> TRUE, elems |-> <<>>]

Slice(elems) == [isNil |-> FALSE, elems |-> elems]

Main == <<"m", "a", "i", "n">>

\* A byte that is not valid UTF-8 (such as 0xff), and the rune U+FFFD.
InvalidByte == "\\xff"
ReplacementChar == "U+FFFD"

Config(mainBranch, copyFiles) ==
    [MainBranch |-> mainBranch, CopyFiles |-> copyFiles]

\* Config{}: the zero value.
ZeroConfig == Config(<<>>, NilSlice)

DefaultConfig == Config(Main, NilSlice)

\* Mutant: only a nil slice counts as no copy files.
IsDefault_NilOnly(c) == c.MainBranch = Main /\ c.CopyFiles.isNil

\* c.MainBranch == "main" && len(c.CopyFiles) == 0
IsDefault(c) == c.MainBranch = Main /\ Len(c.CopyFiles.elems) = 0

\* The strings the model draws configurations from: plain names, a name
\* with a double quote and a backslash, and names with a byte that is not
\* valid UTF-8 (git refs and file names are byte strings).
BranchNames ==
    { Main, <<"d", "e", "v">>, <<"q", "\"", "\\">>, <<InvalidByte, "x">> }

FileNames ==
    { <<".", "e", "n", "v">>, <<InvalidByte>> }

CopyFileLists ==
    {NilSlice} \cup {Slice(l) : l \in UNION {[1..n -> FileNames] : n \in 0..MaxCopyFiles}}

Configs == {Config(m, c) : m \in BranchNames, c \in CopyFileLists}

(***************************************************************************)
(* encoding/json, as config.Save and config.Load use it.  A document is    *)
(* kept as its structure: whether the text is JSON at all, and the value   *)
(* of each of the two keys.  A string value is kept as the characters      *)
(* between its quotes, escapes included.                                   *)
(***************************************************************************)
JMissing == [t |-> "missing", lit |-> <<>>, items |-> <<>>]
JNull == [t |-> "null", lit |-> <<>>, items |-> <<>>]
JNumber == [t |-> "number", lit |-> <<>>, items |-> <<>>]
JString(lit) == [t |-> "string", lit |-> lit, items |-> <<>>]
JArray(items) == [t |-> "array", lit |-> <<>>, items |-> items]

Absent == [kind |-> "absent", main_branch |-> JMissing, copy_files |-> JMissing]

\* Text that is not JSON, such as `{bad json`.
NotJSON == [kind |-> "syntax", main_branch |-> JMissing, copy_files |-> JMissing]

Document(mainBranch, copyFiles) ==
    [kind |-> "json", main_branch |-> mainBranch, copy_files |-> copyFiles]

\* The encoder's string escapes: a quote and a backslash get a backslash, a
\* byte that is not valid UTF-8 is written as the escape of U+FFFD.
EscapeChar(c) ==
    IF c = "\"" THEN <<"\\", "\"">>
    ELSE IF c = "\\" THEN <<"\\", "\\">>
    ELSE IF c = InvalidByte THEN <<"\\", "u", "f", "f", "f", "d">>
    ELSE <<c>>

RECURSIVE EncodeString(_)
EncodeString(str) ==
    IF str = <<>> THEN <<>>
    ELSE EscapeChar(Head(str)) \o EncodeString(Tail(str))

\* The decoder's unquoting of a string literal.
RECURSIVE DecodeString(_)
DecodeString(lit) ==
    IF lit = <<>> THEN <<>>
    ELSE IF Head(lit) = "\\" /\ Len(lit) >= 2
         THEN IF lit[2] = "u" /\ Len(lit) >= 6
              THEN <<IF SubSeq(lit, 3, 6) = <<"f", "f", "f", "d">>
                     THEN ReplacementChar ELSE "?">>
                   \o DecodeString(SubSeq(lit, 7, Len(lit)))
              ELSE <<lit[2]>> \o DecodeString(SubSeq(lit, 3, Len(lit)))
         ELSE <<Head(lit)>> \o DecodeString(Tail(lit))

EncodeAll(strs) == [k \in 1..Len(strs) |-> EncodeString(strs[k])]

DecodeAll(lits) == [k \in 1..Len(lits) |-> DecodeString(lits[k])]

\* json.MarshalIndent(cfg, "", "  "): a nil slice is written as null.
Marshal(c) ==
    Document(JString(EncodeString(c.MainBranch)),
             IF c.CopyFiles.isNil THEN JNull
             ELSE JArray(EncodeAll(c.CopyFiles.elems)))

\* json.Unmarshal(data, &cfg) into the zero Config: text that is not JSON
\* is an error and nothing is stored; a missing or null key leaves its field
\* alone; a value of the wrong type is skipped and reported as an error
\* after the other fields have been stored.
Unmarshal(doc) ==
    IF doc.kind # "json" THEN [cfg |-> ZeroConfig, err |-> "SyntaxError"]
    ELSE [cfg |-> Config(IF doc.main_branch.t = "string"
                         THEN DecodeString(doc.main_branch.lit)
                         ELSE <<>>,
                         IF doc.copy_files.t = "array"
                         THEN Slice(DecodeAll(doc.copy_files.items))
                         ELSE NilSlice),
          err |-> IF \/ doc.main_branch.t \notin {"missing", "null", "string"}
                     \/ doc.copy_files.t \notin {"missing", "null", "array"}
                  THEN "UnmarshalTypeError"
                  ELSE NoError]

(***************************************************************************)
(* config.Load and config.Save.  file is the content of .gwt.json before   *)
(* the call; io tells whether the file system lets the call through ("ok") *)
(* or refuses access to the existing file ("EACCES").                      *)
(***************************************************************************)
IOResults == {"ok", "EACCES"}

\* Mutant: what was parsed before the error is returned with the error.
Load_KeepParsedOnError(file, io) ==
    IF file.kind = "absent" THEN [cfg |-> DefaultConfig, err |-> NoError]
    ELSE IF io # "ok" THEN [cfg |-> ZeroConfig, err |-> io]
    ELSE Unmarshal(file)

Load(file, io) ==
    IF file.kind = "absent" THEN [cfg |-> DefaultConfig, err |-> NoError]
    ELSE IF io # "ok" THEN [cfg |-> ZeroConfig, err |-> io]
    ELSE IF Unmarshal(file).err # NoError
         THEN [cfg |-> ZeroConfig, err |-> Unmarshal(file).err]
         ELSE Unmarshal(file)

Save(file, c, io) ==
    IF IsDefault(c)
    THEN IF file.kind = "absent" THEN [file |-> file, err |-> NoError]
         ELSE IF io # "ok" THEN [file |-> file, err |-> io]
         ELSE [file |-> Absent, err |-> NoError]
    ELSE IF file.kind # "absent" /\ io # "ok" THEN [file |-> file, err |-> io]
         ELSE [file |-> Marshal(c), err |-> NoError]

\* What a call leaves in lastCall: its name, the configuration given or
\* returned, its error, and whether .gwt.json existed before the call.
Call(op, c, e, existed) == [op |-> op, cfg |-> c, err |-> e, existed |-> existed]

NoCall == Call("none", ZeroConfig, NoError, FALSE)

ConfigIdle ==
    /\ cfgFile = Absent
    /\ lastCall = NoCall
    /\ prevCall = NoCall

\* No call of buildAddArgs is under way.
AddIdle ==
    /\ args = <<>>
    /\ repoDir = <<"/">>
    /\ pc = "idle"
    /\ scan = InitScan
    /\ gitArgs = <<>>
    /\ worktreePath = <<>>
    /\ err = NoError

(***************************************************************************)
(* Errors of the git package: nil, the *exec.ExitError of a child that     *)
(* exited with a code, another error, and an error wrapped with %w.        *)
(***************************************************************************)
Nil == [kind |-> "nil"]
ExitError(code) == [kind |-> "ExitError", code |-> code]
OtherError(why) == [kind |-> "error", why |-> why]
Wrap(msg, e) == [kind |-> "wrap", msg |-> msg, inner |-> e]

(***************************************************************************)
(* Repo.ConfigureFetch.  The text of a refspec is a sequence of units: a   *)
(* run of non-blank characters or one white-space character.  values are   *)
(* the values the repository holds for remote.origin.fetch.                *)
(***************************************************************************)
MaxFetchCalls == 3

expected == <<"+refs/heads/*:refs/remotes/origin/*">>

WhiteSpace == {" ", "\t", "\n", "\r"}

RECURSIVE TrimLeft(_)
TrimLeft(s) ==
    IF s # <<>> /\ Head(s) \in WhiteSpace THEN TrimLeft(Tail(s)) ELSE s

RECURSIVE TrimRight(_)
TrimRight(s) ==
    IF s # <<>> /\ s[Len(s)] \in WhiteSpace
    THEN TrimRight(SubSeq(s, 1, Len(s) - 1))
    ELSE s

\* strings.TrimSpace
TrimSpace(s) == TrimRight(TrimLeft(s))

\* `git config remote.origin.fetch`: exit code 1 and no output when the key
\* has no value, otherwise the last value and a newline on stdout.
GitConfigGet(values) ==
    IF values = <<>>
    THEN [err |-> ExitError(1), stdout |-> <<>>]
    ELSE [err |-> Nil, stdout |-> values[Len(values)] \o <<"\n">>]

\* `git config remote.origin.fetch <value>`: replaces the one value or adds
\* the first one; git refuses (exit code 5) to overwrite several values with
\* one, and fails (exit code 255) when it cannot write the config file.
GitConfigSet(values, value, io) ==
    IF Len(values) > 1 THEN [err |-> ExitError(5), values |-> values]
    ELSE IF io # "ok" THEN [err |-> ExitError(255), values |-> values]
    ELSE [err |-> Nil, values |-> <<value>>]

ConfigureFetch(values, io) ==
    LET get == GitConfigGet(values)
    IN  IF get.err = Nil /\ TrimSpace(get.stdout) = expected
        THEN [values |-> values, err |-> Nil,
              readFailed |-> FALSE, setRan |-> FALSE]
        ELSE LET set == GitConfigSet(values, expected, io)
             IN  [values |-> set.values, err |-> set.err,
                  readFailed |-> get.err # Nil, setRan |-> TRUE]

\* The last call of ConfigureFetch: how many calls were made so far, what
\* came just before it (nothing, a call that returned nil, a call that
\* failed, or a change of the configuration by someone else), what it did,
\* and whether the configuration was changed by someone else since.
FetchCall(n, after, r) ==
    [n |-> n, after |-> after, err |-> r.err, readFailed |-> r.readFailed,
     setRan |-> r.setRan, edited |-> FALSE]

NoFetchCall ==
    [n |-> 0, after |-> "none", err |-> Nil, readFailed |-> FALSE,
     setRan |-> FALSE, edited |-> FALSE]

\* No call of ConfigureFetch was made; the key is not set.
FetchIdle ==
    /\ fetchConfig = <<>>
    /\ fetchCall = NoFetchCall

(***************************************************************************)
(* Package hook.  HookData holds Go strings (sequences of characters) and  *)
(* a list of file names.                                                   *)
(***************************************************************************)
MaxHookFiles == 1

HookData(basePath, copyFiles, versionManager, packageManager) ==
    [BasePath |-> basePath, CopyFiles |-> copyFiles,
     VersionManager |-> versionManager, PackageManager |-> packageManager]

dotEnv == <<".", "e", "n", "v">>
npm == <<"n", "p", "m">>
pnpm == <<"p", "n", "p", "m">>
yarn == <<"y", "a", "r", "n">>
bun == <<"b", "u", "n">>
asdf == <<"a", "s", "d", "f">>
mise == <<"m", "i", "s", "e">>

\* Mutant: yarn is not told apart from the other package managers.
BuildCommand_NoYarnCase(d) ==
    IF d.PackageManager = <<>> THEN <<>>
    ELSE d.PackageManager \o <<" ", "r", "u", "n", " ", "b", "u", "i", "l", "d">>

BuildCommand(d) ==
    CASE d.PackageManager = yarn -> <<"y", "a", "r", "n", " ", "b", "u", "i", "l", "d">>
      [] d.PackageManager = <<>> -> <<>>
      [] OTHER -> d.PackageManager
                    \o <<" ", "r", "u", "n", " ", "b", "u", "i", "l", "d">>

\* Mutant: the quote is escaped without closing and reopening the quoting.
shellEscape_BackslashOnly(s) == ReplaceAll(s, <<"'">>, <<"\\", "'">>)

shellEscape(s) == ReplaceAll(s, <<"'">>, <<"'", "\\", "'", "'">>)

(***************************************************************************)
(* Generate renders templates/post-checkout.sh.tmpl.  A script is a        *)
(* sequence of lines, a line a sequence of characters in which a stretch   *)
(* of fixed template text stands as one unit.  The skeleton: the shebang,  *)
(* the guard that lets the steps run once per branch checkout, one copy    *)
(* per file with base path and name escaped inside single quotes, and,     *)
(* when a package manager is given, its install and build commands, run    *)
(* through the version manager when there is one.                          *)
(***************************************************************************)
Quoted(s) == <<"'">> \o shellEscape(s) \o <<"'">>

CopyLine(d, f) ==
    <<"cp ">> \o Quoted(d.BasePath \o <<"/">> \o f) \o <<" ">> \o Quoted(f)

CopyLines(d) == [k \in 1..Len(d.CopyFiles) |-> CopyLine(d, d.CopyFiles[k])]

Through(d, command) ==
    IF d.VersionManager = mise THEN <<"mise exec -- ">> \o command
    ELSE command

ToolLines(d) ==
    IF d.PackageManager = <<>> THEN <<>>
    ELSE (IF d.VersionManager = asdf THEN << <<". asdf.sh">> >> ELSE <<>>)
            \o << Through(d, d.PackageManager \o <<" install">>),
                  Through(d, BuildCommand(d)) >>

Generate(d) ==
    << <<"#!/bin/bash">>, <<"if [[ \"$3\" == \"1\" ]]; then">> >>
        \o CopyLines(d) \o ToolLines(d) \o << <<"fi">> >>

(***************************************************************************)
(* The files of one hooks directory.  A file is NoFile or its content and  *)
(* permission bits; the bits are written as Go writes them, "0755".        *)
(***************************************************************************)
NoFile == [exists |-> FALSE]
File(content, mode) == [exists |-> TRUE, content |-> content, mode |-> mode]

HooksFs(dir, hook) == [dir |-> dir, hook |-> hook]

\* The owner may write the file.
Writable(mode) == mode \in {"0755", "0644", "0600", "0700"}

\* os.MkdirAll(hooksDir, 0o755): nothing to do for a directory that exists;
\* io = "mkdir" is a file system that refuses to create it.
MkdirAll(fs, io) ==
    IF fs.dir THEN [fs |-> fs, err |-> Nil]
    ELSE IF io = "mkdir" THEN [fs |-> fs, err |-> OtherError(<<"mkdir">>)]
    ELSE [fs |-> HooksFs(TRUE, NoFile), err |-> Nil]

\* The bytes of data written from offset 0 over the bytes of old.
WriteAt(old, data) == data \o SubSeq(old, Len(data) + 1, Len(old))

\* Mutant: the file is opened without O_TRUNC.
WriteFile_NoTruncate(fs, data, perm, io) ==
    IF ~fs.dir \/ io = "write" \/ (fs.hook.exists /\ ~Writable(fs.hook.mode))
    THEN [fs |-> fs, err |-> OtherError(<<"open">>)]
    ELSE IF fs.hook.exists
         THEN [fs |-> HooksFs(TRUE, File(WriteAt(fs.hook.content, data),
                                         fs.hook.mode)),
               err |-> Nil]
         ELSE [fs |-> HooksFs(TRUE, File(data, perm)), err |-> Nil]

\* os.WriteFile(hookPath, data, perm) opens with O_WRONLY|O_CREATE|O_TRUNC:
\* a new file gets perm (the process umask is taken to leave 0755 whole), an
\* existing file is emptied and keeps the permission bits it has; the open
\* fails for a file its owner may not write and when io = "write".
WriteFile(fs, data, perm, io) ==
    IF ~fs.dir \/ io = "write" \/ (fs.hook.exists /\ ~Writable(fs.hook.mode))
    THEN [fs |-> fs, err |-> OtherError(<<"open">>)]
    ELSE IF fs.hook.exists
         THEN [fs |-> HooksFs(TRUE, File(WriteAt(<<>>, data), fs.hook.mode)),
               err |-> Nil]
         ELSE [fs |-> HooksFs(TRUE, File(data, perm)), err |-> Nil]

\* os.Stat(hookPath) returns nil.
Stat(fs) == fs.dir /\ fs.hook.exists

postCheckout ==
    <<"p", "o", "s", "t", "-", "c", "h", "e", "c", "k", "o", "u", "t">>

AlreadyExists(hookPath) ==
    OtherError(<<"hook already exists at ">> \o hookPath
                  \o <<"; use ">> \o <<"-", "-", "f", "o", "r", "c", "e">>
                  \o <<" to overwrite">>)

\* Mutant: the existing hook is not looked for.
Install_NoStat(fs, hooksDir, data, force, io) ==
    LET content == Generate(data)
        made == MkdirAll(fs, io)
        written == WriteFile(made.fs, content, "0755", io)
    IN  IF made.err # Nil
        THEN [fs |-> made.fs,
              err |-> Wrap(<<"failed to create hooks directory: ">>, made.err)]
        ELSE IF written.err # Nil
             THEN [fs |-> written.fs,
                   err |-> Wrap(<<"failed to write hook: ">>, written.err)]
             ELSE [fs |-> written.fs, err |-> Nil]

Install(fs, hooksDir, data, force, io) ==
    LET hookPath == Join(hooksDir, postCheckout)
        content == Generate(data)
        made == MkdirAll(fs, io)
        written == WriteFile(made.fs, content, "0755", io)
    IN  IF ~force /\ Stat(fs)
        THEN [fs |-> fs, err |-> AlreadyExists(hookPath)]
        ELSE IF made.err # Nil
             THEN [fs |-> made.fs,
                   err |-> Wrap(<<"failed to create hooks directory: ">>,
                                made.err)]
             ELSE IF written.err # Nil
                  THEN [fs |-> written.fs,
                        err |-> Wrap(<<"failed to write hook: ">>, written.err)]
                  ELSE [fs |-> written.fs, err |-> Nil]

\* What BuildCommand and Generate returned for hookData.
Rendered(d) == [done |-> TRUE, build |-> BuildCommand(d), script |-> Generate(d)]

NotRendered == [done |-> FALSE]

\* Nothing is being rendered.
RenderIdle ==
    /\ hookData = HookData(<<>>, <<>>, <<>>, <<>>)
    /\ rendered = NotRendered

\* The last call of Install: how many calls were made so far, its arguments,
\* the hooks directory as it was before the call, and the error returned.
InstallCall(n, hooksDir, data, force, before, e) ==
    [n |-> n, hooksDir |-> hooksDir, data |-> data, force |-> force,
     before |-> before, err |-> e]

NoInstall ==
    InstallCall(0, <<>>, HookData(<<>>, <<>>, <<>>, <<>>), FALSE,
                HooksFs(FALSE, NoFile), Nil)

\* No call of Install was made; there is no hooks directory.
InstallIdle ==
    /\ hooksFs = HooksFs(FALSE, NoFile)
    /\ installCall = NoInstall

\* What shellEscape returned.
Escaped(s) == [done |-> TRUE, text |-> shellEscape(s)]

NotEscaped == [done |-> FALSE]

\* Nothing is being escaped.
EscapeIdle ==
    /\ escInput = <<>>
    /\ escaped = NotEscaped

(***************************************************************************)
(* git.ExitCode.  errors.As follows the chain of wrapped errors to the     *)
(* first *exec.ExitError; it finds none in a nil error.                    *)
(***************************************************************************)
NotFound == [kind |-> "none"]

RECURSIVE As(_)
As(e) ==
    IF e.kind = "ExitError" THEN e
    ELSE IF e.kind = "wrap" THEN As(e.inner)
    ELSE NotFound

\* Mutant: every error gives 1.
ExitCode_AlwaysOne(e) == 1

ExitCode(e) ==
    LET exitErr == As(e)
    IN  IF exitErr # NotFound THEN exitErr.code ELSE 1

ExitResult(e) == [done |-> TRUE, code |-> ExitCode(e)]

NoExitResult == [done |-> FALSE]

\* ExitCode is not being called.
ExitIdle ==
    /\ exitInput = Nil
    /\ exitResult = NoExitResult

(***************************************************************************)
(* The command line.  A git child ends by exiting with a code, by a signal *)
(* or without having started; cmd.Run returns nil for exit code 0, an      *)
(* *exec.ExitError for another code or a signal (ExitCode() is then -1),   *)
(* and another error for a child that did not start.                       *)
(***************************************************************************)
Exited(code) == [kind |-> "exit", code |-> code]
Signalled == [kind |-> "signal", code |-> -1]
NotStarted == [kind |-> "notstarted", code |-> -1]

Run(child) ==
    IF child.kind = "notstarted" THEN OtherError(<<"exec: not started">>)
    ELSE IF child = Exited(0) THEN Nil
    ELSE ExitError(child.code)

\* exec.Command("git", argv...) with cmd.Dir = dir
Command(dir, argv) == [dir |-> dir, argv |-> argv]

git == <<"g", "i", "t">>
worktree == <<"w", "o", "r", "k", "t", "r", "e", "e">>
add == <<"a", "d", "d">>

Passthrough(dir, a, child) ==
    [ran |-> <<Command(dir, <<git, worktree>> \o a)>>, err |-> Run(child)]

\* Mutant: git is run before the result of buildAddArgs is looked at.
Add_RunsFirst(dir, a, child) ==
    LET built == buildAddArgs(a, dir)
        cmd == Command(dir, <<git, worktree, add>> \o built.gitArgs)
        e == Run(child)
    IN  IF built.err # NoError
        THEN [ran |-> <<cmd>>, path |-> <<>>, err |-> OtherError(built.err)]
        ELSE IF e # Nil
             THEN [ran |-> <<cmd>>, path |-> <<>>,
                   err |-> Wrap(<<"git worktree add failed: ">>, e)]
             ELSE [ran |-> <<cmd>>, path |-> built.worktreePath, err |-> Nil]

Add(dir, a, child) ==
    LET built == buildAddArgs(a, dir)
        cmd == Command(dir, <<git, worktree, add>> \o built.gitArgs)
        e == Run(child)
    IN  IF built.err # NoError
        THEN [ran |-> <<>>, path |-> <<>>, err |-> OtherError(built.err)]
        ELSE IF e # Nil
             THEN [ran |-> <<cmd>>, path |-> <<>>,
                   err |-> Wrap(<<"git worktree add failed: ">>, e)]
             ELSE [ran |-> <<cmd>>, path |-> built.worktreePath, err |-> Nil]

\* GWT_CD_FILE in the environment: not set, or set to a value.
Unset == [set |-> FALSE, value |-> <<>>]
SetTo(value) == [set |-> TRUE, value |-> value]

\* os.Getenv: the empty string for a variable that is not set.
Getenv(v) == IF v.set THEN v.value ELSE <<>>

\* os.WriteFile(cdFile, []byte(path), 0o644): the file and the bytes written.
Written(file, content) == [file |-> file, content |-> content]

\* Mutant: the path is written as a line.
WriteCdFile_Line(v, path) ==
    LET cdFile == Getenv(v)
    IN  IF cdFile # <<>> /\ path # <<>>
        THEN <<Written(cdFile, path \o <<"\n">>)>>
        ELSE <<>>

\* The writes WriteCdFile makes.
WriteCdFile(v, path) ==
    LET cdFile == Getenv(v)
    IN  IF cdFile # <<>> /\ path # <<>>
        THEN <<Written(cdFile, path)>>
        ELSE <<>>

aliases ==
    [a \in {<<"l", "s">>, <<"r", "m">>} |->
        IF a = <<"l", "s">> THEN <<"l", "i", "s", "t">>
        ELSE <<"r", "e", "m", "o", "v", "e">>]

\* if replacement, ok := aliases[subcmd]; ok { subcmd = replacement }
ResolveAlias(subcmd) ==
    IF subcmd \in DOMAIN aliases THEN aliases[subcmd] ELSE subcmd

known ==
    { <<"i", "n", "i", "t">>,
      <<"a", "d", "d">>,
      <<"c", "l", "o", "n", "e">>,
      <<"v", "e", "r", "s", "i", "o", "n">>,
      <<"s", "h", "e", "l", "l", "-", "i", "n", "i", "t">>,
      <<"h", "e", "l", "p">>,
      <<"c", "o", "m", "p", "l", "e", "t", "i", "o", "n">>,
      <<"-", "-", "h", "e", "l", "p">>,
      <<"-", "h">>,
      <<"-", "-", "v", "e", "r", "s", "i", "o", "n">> }

helpFlags == { <<"-", "-", "h", "e", "l", "p">>, <<"-", "h">> }

\* os.Exit(code): the status the parent sees is the low eight bits.
ExitStatus(code) == code % 256

\* What Repo.Add returned, when it was called.
AddReturned(r) == [called |-> TRUE, path |-> r.path, err |-> r.err]
AddNotCalled == [called |-> FALSE, path |-> <<>>, err |-> Nil]

CliResult(handler, ran, added, path, written, exit) ==
    [done |-> TRUE, handler |-> handler, ran |-> ran, add |-> added,
     path |-> path, written |-> written, exit |-> exit]

NoCliResult ==
    [done |-> FALSE, handler |-> "none", ran |-> <<>>, add |-> AddNotCalled,
     path |-> <<>>, written |-> <<>>, exit |-> 0]

\* main, for a first argument that is not a known subcommand once its alias
\* is resolved: NewRepo, Passthrough(os.Args[1:]) and the exit.  An empty
\* root stands for a NewRepo that returned an error.
MainPassthrough(a, env) ==
    LET forwarded == <<ResolveAlias(a[1])>> \o Tail(a)
        p == Passthrough(env.root, forwarded, env.child)
    IN  IF env.root = <<>>
        THEN CliResult("passthrough", <<>>, AddNotCalled, <<>>, <<>>, 1)
        ELSE CliResult("passthrough", p.ran, AddNotCalled, <<>>, <<>>,
                       IF p.err # Nil THEN ExitStatus(ExitCode(p.err)) ELSE 0)

\* addCmd.RunE and the exit main makes of its error.
AddCmd(a, env) ==
    LET r == Add(env.root, a, env.child)
        written == IF r.err = Nil /\ r.path # <<>>
                   THEN WriteCdFile(env.cdFile, r.path)
                   ELSE <<>>
    IN  IF \E k \in 1..Len(a) : a[k] \in helpFlags
        THEN CliResult("add", <<>>, AddNotCalled, <<>>, <<>>, 0)
        ELSE IF env.root = <<>>
             THEN CliResult("add", <<>>, AddNotCalled, <<>>, <<>>, 1)
             ELSE CliResult("add", r.ran, AddReturned(r), r.path, written,
                            IF r.err # Nil THEN 1 ELSE 0)

\* The tool is not running.
CliIdle ==
    /\ osArgs = <<>>
    /\ environ = [cdFile |-> Unset, root |-> <<>>, child |-> Exited(0)]
    /\ cliResult = NoCliResult

(***************************************************************************)
(* git.NewRepo.  A git query fails or prints a line; paths are made        *)
(* absolute against the working directory of the process.                  *)
(***************************************************************************)
Failed == [ok |-> FALSE, stdout |-> <<>>]
Prints(text) == [ok |-> TRUE, stdout |-> text \o <<"\n">>]

true == <<"t", "r", "u", "e">>
false == <<"f", "a", "l", "s", "e">>

\* filepath.Abs
Abs(cwd, path) ==
    IF HasPrefix(path, Separator) THEN Clean(path) ELSE Join(cwd, path)

\* filepath.Dir: the path up to its last separator, cleaned.
Dir(path) ==
    LET slashes == {k \in 1..Len(path) : path[k] = "/"}
        i == IF slashes = {} THEN 0
             ELSE CHOOSE k \in slashes : \A n \in slashes : n <= k
    IN  Clean(SubSeq(path, 1, i))

Repo(dir, isBare) == [Dir |-> dir, IsBare |-> isBare]

NoRepo == [Dir |-> <<>>, IsBare |-> FALSE]

NotARepository(why) == [ok |-> FALSE, repo |-> NoRepo, err |-> OtherError(why)]

\* Mutant: the bareness of the common directory is not looked at.
NewRepo_NoCommonDir(e) ==
    LET isBare == TrimSpace(e.isBare.stdout) = true
        first == IF isBare THEN e.gitDir ELSE e.topLevel
    IN  IF ~e.isBare.ok THEN NotARepository(<<"not in a git repository">>)
        ELSE IF ~first.ok
             THEN NotARepository(<<"failed to detect repo directory">>)
        ELSE IF ~e.commonDir.ok
             THEN NotARepository(<<"failed to detect git common dir">>)
        ELSE IF ~e.commonIsBare.ok
             THEN NotARepository(<<"failed to check bare status of common dir">>)
        ELSE [ok |-> TRUE, err |-> Nil,
              repo |-> Repo(Abs(e.cwd, TrimSpace(first.stdout)), isBare)]

NewRepo(e) ==
    LET isBare == TrimSpace(e.isBare.stdout) = true
        first == IF isBare THEN e.gitDir ELSE e.topLevel
        dir == Abs(e.cwd, TrimSpace(first.stdout))
        commonDir == Abs(e.cwd, TrimSpace(e.commonDir.stdout))
    IN  IF ~e.isBare.ok THEN NotARepository(<<"not in a git repository">>)
        ELSE IF ~first.ok
             THEN NotARepository(<<"failed to detect repo directory">>)
        ELSE IF ~e.commonDir.ok
             THEN NotARepository(<<"failed to detect git common dir">>)
        ELSE IF ~e.commonIsBare.ok
             THEN NotARepository(<<"failed to check bare status of common dir">>)
        ELSE IF TrimSpace(e.commonIsBare.stdout) = true
             THEN [ok |-> TRUE, err |-> Nil, repo |-> Repo(Dir(commonDir), TRUE)]
             ELSE [ok |-> TRUE, err |-> Nil, repo |-> Repo(dir, isBare)]

RepoEnv(cwd, isBare, gitDir, topLevel, commonDir, commonIsBare) ==
    [cwd |-> cwd, isBare |-> isBare, gitDir |-> gitDir, topLevel |-> topLevel,
     commonDir |-> commonDir, commonIsBare |-> commonIsBare]

NotResolved == [done |-> FALSE]

\* NewRepo is not being called.
RepoIdle ==
    /\ repoEnv = RepoEnv(<<"/">>, Failed, Failed, Failed, Failed, Failed)
    /\ repoResult = NotResolved

(***************************************************************************)
(* git.Clone, setupHook and the handlers of `gwt clone` and `gwt init`.    *)
(* A site is the directory a command works on: the directory itself with   *)
(* its entries, the remote.origin.fetch values of the repository in it and *)
(* its hooks directory.  A world says which step the system refuses.       *)
(***************************************************************************)
\* F applied to the value x: a local name for a value that is used often.
With(x, F(_)) == F(x)

NoDirectory == [exists |-> FALSE, entries |-> {}]
Directory(entries) == [exists |-> TRUE, entries |-> entries]
Entry(name, content) == [name |-> name, content |-> content]

Site(target, fetch, hooks) ==
    [target |-> target, fetch |-> fetch, hooks |-> hooks]

NoSite == Site(NoDirectory, <<>>, HooksFs(FALSE, NoFile))

World(fault, removeFails, commonDir, template) ==
    [fault |-> fault, removeFails |-> removeFails, commonDir |-> commonDir,
     template |-> template]

\* strings.LastIndex for a one-character substr, counted from 1; 0 for none.
LastIndex(s, ch) ==
    LET at == {k \in 1..Len(s) : s[k] = ch}
    IN  IF at = {} THEN 0 ELSE CHOOSE k \in at : \A n \in at : n <= k

\* strings.TrimRight(s, cutset) for a cutset of one character.
RECURSIVE TrimRightOf(_, _)
TrimRightOf(s, ch) ==
    IF s # <<>> /\ s[Len(s)] = ch
    THEN TrimRightOf(SubSeq(s, 1, Len(s) - 1), ch)
    ELSE s

\* strings.TrimSuffix
TrimSuffix(s, suffix) ==
    IF Len(s) >= Len(suffix)
       /\ SubSeq(s, Len(s) - Len(suffix) + 1, Len(s)) = suffix
    THEN SubSeq(s, 1, Len(s) - Len(suffix))
    ELSE s

repoName(url) ==
    LET trimmed == TrimRightOf(url, "/")
        i == LastIndex(trimmed, "/")
        base == IF i >= 1 THEN SubSeq(trimmed, i + 1, Len(trimmed))
                ELSE trimmed
        j == LastIndex(base, ":")
        name == IF j >= 1 THEN SubSeq(base, j + 1, Len(base)) ELSE base
    IN  TrimSuffix(name, <<".", "g", "i", "t">>)

\* The steps of Clone, as they appear in what a handler ran.
CloneSteps ==
    <<"Mkdir", "git clone --bare", "WriteFile .git", "ConfigureFetch",
      "git fetch origin">>

\* What Clone returns, with the site it leaves and the steps it ran.  After
\* a failure the deferred os.RemoveAll has run; a removal that fails leaves
\* what was there.
Left(s, w, dir, e, n, cleanup) ==
    [site |-> IF cleanup /\ ~w.removeFails THEN NoSite ELSE s,
     dir |-> dir, err |-> e,
     ran |-> SubSeq(CloneSteps, 1, n)
                \o (IF cleanup THEN <<"RemoveAll">> ELSE <<>>)]

\* Mutant: the deferred removal is registered before os.Mkdir.
Clone_RemoveAlways(url, dir, cwd, s, w) ==
    LET absDir == Abs(cwd, IF dir = <<>> THEN repoName(url) ELSE dir)
        made == Site(Directory({}), <<>>, HooksFs(FALSE, NoFile))
        cloned == Site(Directory({Entry(".bare", "directory")}), <<>>,
                       w.template)
        pointed == Site(Directory(cloned.target.entries
                            \cup {Entry(".git", "gitdir: ./.bare\n")}),
                        cloned.fetch, cloned.hooks)
        cf == ConfigureFetch(pointed.fetch,
                             IF w.fault = "config" THEN "EACCES" ELSE "ok")
        configured == Site(pointed.target, cf.values, pointed.hooks)
    IN  IF s.target.exists \/ w.fault = "mkdir"
        THEN Left(s, w, <<>>,
                  Wrap(<<"failed to create directory: ">>,
                       OtherError(<<"mkdir">>)), 1, TRUE)
        ELSE IF w.fault = "clone"
        THEN Left(made, w, <<>>,
                  Wrap(<<"git clone --bare failed: ">>, ExitError(128)),
                  2, TRUE)
        ELSE IF w.fault = "gitfile"
        THEN Left(cloned, w, <<>>,
                  Wrap(<<"failed to write .git file: ">>,
                       OtherError(<<"open">>)), 3, TRUE)
        ELSE IF cf.err # Nil
        THEN Left(configured, w, <<>>,
                  Wrap(<<"failed to configure fetch: ">>, cf.err), 4, TRUE)
        ELSE IF w.fault = "fetch"
        THEN Left(configured, w, <<>>,
                  Wrap(<<"git fetch failed: ">>, ExitError(128)), 5, TRUE)
        ELSE Left(configured, w, absDir, Nil, 5, FALSE)

Clone(url, dir, cwd, s, w) ==
    LET absDir == Abs(cwd, IF dir = <<>> THEN repoName(url) ELSE dir)
        made == Site(Directory({}), <<>>, HooksFs(FALSE, NoFile))
        cloned == Site(Directory({Entry(".bare", "directory")}), <<>>,
                       w.template)
        pointed == Site(Directory(cloned.target.entries
                            \cup {Entry(".git", "gitdir: ./.bare\n")}),
                        cloned.fetch, cloned.hooks)
        cf == ConfigureFetch(pointed.fetch,
                             IF w.fault = "config" THEN "EACCES" ELSE "ok")
        configured == Site(pointed.target, cf.values, pointed.hooks)
    IN  IF s.target.exists \/ w.fault = "mkdir"
        THEN Left(s, w, <<>>,
                  Wrap(<<"failed to create directory: ">>,
                       OtherError(<<"mkdir">>)), 1, FALSE)
        ELSE IF w.fault = "clone"
        THEN Left(made, w, <<>>,
                  Wrap(<<"git clone --bare failed: ">>, ExitError(128)),
                  2, TRUE)
        ELSE IF w.fault = "gitfile"
        THEN Left(cloned, w, <<>>,
                  Wrap(<<"failed to write .git file: ">>,
                       OtherError(<<"open">>)), 3, TRUE)
        ELSE IF cf.err # Nil
        THEN Left(configured, w, <<>>,
                  Wrap(<<"failed to configure fetch: ">>, cf.err), 4, TRUE)
        ELSE IF w.fault = "fetch"
        THEN Left(configured, w, <<>>,
                  Wrap(<<"git fetch failed: ">>, ExitError(128)), 5, TRUE)
        ELSE Left(configured, w, absDir, Nil, 5, FALSE)

\* Repo.HooksDir: answer is what `git rev-parse --git-common-dir` says.
HooksDir(repo, answer) ==
    LET commonDir == TrimSpace(answer.stdout)
        abs == IF HasPrefix(commonDir, Separator) THEN commonDir
               ELSE Join(repo.Dir, commonDir)
    IN  IF ~answer.ok
        THEN [dir |-> <<>>,
              err |-> Wrap(<<"failed to find git common dir: ">>,
                           ExitError(128))]
        ELSE [dir |-> Join(abs, <<"h", "o", "o", "k", "s">>), err |-> Nil]

hookOptions(mainBranch, copyFiles, versionManager, packageManager, force) ==
    [mainBranch |-> mainBranch, copyFiles |-> copyFiles,
     versionManager |-> versionManager, packageManager |-> packageManager,
     force |-> force]

defaultHookOptions ==
    hookOptions(<<"m", "a", "i", "n">>, <<dotEnv>>, <<>>, <<>>, FALSE)

\* The io argument of hook.Install in world w.
HookIO(w) ==
    IF w.fault = "hookmkdir" THEN "mkdir"
    ELSE IF w.fault = "hookwrite" THEN "write"
    ELSE "ok"

setupHook(repo, opts, s, w) ==
    With(IF repo.IsBare
         THEN ConfigureFetch(s.fetch,
                             IF w.fault = "config" THEN "EACCES" ELSE "ok")
         ELSE [values |-> s.fetch, err |-> Nil], LAMBDA cf :
    With(IF repo.IsBare THEN <<"ConfigureFetch">> ELSE <<>>, LAMBDA first :
    With(IF repo.IsBare THEN Join(repo.Dir, opts.mainBranch) ELSE repo.Dir,
         LAMBDA basePath :
    IF cf.err # Nil
    THEN [site |-> Site(s.target, cf.values, s.hooks),
          err |-> Wrap(<<"failed to configure fetch: ">>, cf.err),
          ran |-> first]
    ELSE
    With(HooksDir(repo, w.commonDir), LAMBDA hd :
    IF hd.err # Nil
    THEN [site |-> Site(s.target, cf.values, s.hooks), err |-> hd.err,
          ran |-> first \o <<"HooksDir">>]
    ELSE
    With(Install(s.hooks, hd.dir,
                 HookData(basePath, opts.copyFiles, opts.versionManager,
                          opts.packageManager),
                 opts.force, HookIO(w)), LAMBDA inst :
    [site |-> Site(s.target, cf.values, inst.fs), err |-> inst.err,
     ran |-> first \o <<"HooksDir", "Install">>])))))

\* A flag of the command line: not given, with its default, or given.
NotGiven(default) == [changed |-> FALSE, value |-> default]
Given(value) == [changed |-> TRUE, value |-> value]

Flags(mainBranch, copy, noCopy, versionManager, packageManager, force) ==
    ("main" :> mainBranch) @@ ("copy" :> copy) @@ ("no-copy" :> noCopy)
        @@ ("version-manager" :> versionManager)
        @@ ("package-manager" :> packageManager) @@ ("force" :> force)

initFlags ==
    {"main", "copy", "no-copy", "version-manager", "package-manager"}

validVersionManagers == {asdf, mise}
validPackageManagers == {pnpm, npm, yarn}

Request(cmd, url, dir, cwd, flags, cdFile, env, world) ==
    [cmd |-> cmd, url |-> url, dir |-> dir, cwd |-> cwd, flags |-> flags,
     cdFile |-> cdFile, repoEnv |-> env, world |-> world]

\* What a handler returned to main, which exits with 1 on an error of
\* rootCmd.Execute: the steps it ran and the writes of WriteCdFile.
Returned(handler, e, ran, written) ==
    [done |-> TRUE, handler |-> handler, err |-> e,
     exit |-> IF e = Nil THEN 0 ELSE 1, ran |-> ran, written |-> written]

NotRun ==
    [done |-> FALSE, handler |-> "none", err |-> Nil, exit |-> 0,
     ran |-> <<>>, written |-> <<>>]

InvalidVersionManager == OtherError(<<"invalid version manager">>)
InvalidPackageManager == OtherError(<<"invalid package manager">>)

\* cloneCmd.RunE of main.go: the hook of defaultHookOptions, always.
cloneCmdDefaultHook(req, s) ==
    With(Clone(req.url, req.dir, req.cwd, s, req.world), LAMBDA c :
    IF c.err # Nil
    THEN [site |-> c.site, result |-> Returned("clone", c.err, c.ran, <<>>)]
    ELSE
    With(setupHook(Repo(c.dir, TRUE), defaultHookOptions, c.site, req.world),
         LAMBDA h :
    [site |-> h.site,
     result |-> Returned("clone", h.err, c.ran \o h.ran, <<>>)]))

\* cloneCmd.RunE with the init flags.
cloneCmd(req, s) ==
    With(Clone(req.url, req.dir, req.cwd, s, req.world), LAMBDA c :
    With(req.flags, LAMBDA f :
    With(IF f["no-copy"].value THEN <<>> ELSE f["copy"].value,
         LAMBDA copyFiles :
    With(f["version-manager"].value, LAMBDA versionManager :
    With(f["package-manager"].value, LAMBDA packageManager :
    With(\E n \in initFlags : f[n].changed, LAMBDA wantHook :
    IF c.err # Nil
    THEN [site |-> c.site, result |-> Returned("clone", c.err, c.ran, <<>>)]
    ELSE IF versionManager # <<>>
            /\ versionManager \notin validVersionManagers
    THEN [site |-> c.site,
          result |-> Returned("clone", InvalidVersionManager, c.ran, <<>>)]
    ELSE IF packageManager # <<>>
            /\ packageManager \notin validPackageManagers
    THEN [site |-> c.site,
          result |-> Returned("clone", InvalidPackageManager, c.ran, <<>>)]
    ELSE IF ~wantHook
    THEN [site |-> c.site,
          result |-> Returned("clone", Nil, c.ran,
                              WriteCdFile(req.cdFile, c.dir))]
    ELSE
    With(setupHook(Repo(c.dir, TRUE),
                   hookOptions(f["main"].value, copyFiles, versionManager,
                               packageManager, FALSE),
                   c.site, req.world), LAMBDA h :
    IF h.err # Nil
    THEN [site |-> h.site,
          result |-> Returned("clone", h.err, c.ran \o h.ran, <<>>)]
    ELSE [site |-> h.site,
          result |-> Returned("clone", Nil, c.ran \o h.ran,
                              WriteCdFile(req.cdFile, c.dir))])))))))

\* Mutant: the error of NewRepo is dropped.
initCmd_IgnoreRepoError(req, s) ==
    With(NewRepo(req.repoEnv), LAMBDA r :
    With(req.flags, LAMBDA f :
    With(IF f["no-copy"].value THEN <<>>
         ELSE IF ~f["copy"].changed THEN <<dotEnv>>
         ELSE f["copy"].value, LAMBDA copyFiles :
    With(f["version-manager"].value, LAMBDA versionManager :
    With(f["package-manager"].value, LAMBDA packageManager :
    IF versionManager # <<>>
            /\ versionManager \notin validVersionManagers
    THEN [site |-> s,
          result |-> Returned("init", InvalidVersionManager, <<"NewRepo">>,
                              <<>>)]
    ELSE IF packageManager # <<>>
            /\ packageManager \notin validPackageManagers
    THEN [site |-> s,
          result |-> Returned("init", InvalidPackageManager, <<"NewRepo">>,
                              <<>>)]
    ELSE
    With(setupHook(r.repo,
                   hookOptions(f["main"].value, copyFiles, versionManager,
                               packageManager, f["force"].value),
                   s, req.world), LAMBDA h :
    [site |-> h.site,
     result |-> Returned("init", h.err, <<"NewRepo">> \o h.ran, <<>>)]))))))

\* initCmd.RunE
initCmd(req, s) ==
    With(NewRepo(req.repoEnv), LAMBDA r :
    With(req.flags, LAMBDA f :
    With(IF f["no-copy"].value THEN <<>>
         ELSE IF ~f["copy"].changed THEN <<dotEnv>>
         ELSE f["copy"].value, LAMBDA copyFiles :
    With(f["version-manager"].value, LAMBDA versionManager :
    With(f["package-manager"].value, LAMBDA packageManager :
    IF r.err # Nil
    THEN [site |-> s, result |-> Returned("init", r.err, <<"NewRepo">>, <<>>)]
    ELSE IF versionManager # <<>>
            /\ versionManager \notin validVersionManagers
    THEN [site |-> s,
          result |-> Returned("init", InvalidVersionManager, <<"NewRepo">>,
                              <<>>)]
    ELSE IF packageManager # <<>>
            /\ packageManager \notin validPackageManagers
    THEN [site |-> s,
          result |-> Returned("init", InvalidPackageManager, <<"NewRepo">>,
                              <<>>)]
    ELSE
    With(setupHook(r.repo,
                   hookOptions(f["main"].value, copyFiles, versionManager,
                               packageManager, f["force"].value),
                   s, req.world), LAMBDA h :
    [site |-> h.site,
     result |-> Returned("init", h.err, <<"NewRepo">> \o h.ran, <<>>)]))))))

NoFlags ==
    Flags(NotGiven(<<"m", "a", "i", "n">>), NotGiven(<<>>), NotGiven(FALSE),
          NotGiven(<<>>), NotGiven(<<>>), NotGiven(FALSE))

NoRequest ==
    Request("none", <<>>, <<>>, <<"/">>, NoFlags, Unset,
            RepoEnv(<<"/">>, Failed, Failed, Failed, Failed, Failed),
            World("none", FALSE, Failed, HooksFs(FALSE, NoFile)))

\* Neither `gwt clone` nor `gwt init` is running.
ToolIdle ==
    /\ request = NoRequest
    /\ site = NoSite
    /\ toolResult = NotRun

(***************************************************************************)
(* The earlier `gwt add`: extractWorktreePath, Repo.Add,                *)
(* WorktreePathForBranch, CopyFileToWorktree and addCmd.RunE.  The disk is *)
(* a set of files and directories, one for a path.                         *)
(***************************************************************************)
MaxNameParts == 3

RegularFile(path, content, mode) ==
    [path |-> path, kind |-> "file", content |-> content, mode |-> mode]

DirectoryAt(path) ==
    [path |-> path, kind |-> "dir", content |-> <<>>, mode |-> "0755"]

Missing(path) ==
    [path |-> path, kind |-> "none", content |-> <<>>, mode |-> "0000"]

Lookup(fs, path) ==
    IF \E e \in fs : e.path = path
    THEN CHOOSE e \in fs : e.path = path
    ELSE Missing(path)

\* One call of the file system, as the log of a copy keeps it.
FileOp(op, path) == [op |-> op, path |-> path]

\* path and the directories above it, for a clean absolute path.
Ancestors(path) ==
    {Separator, path}
        \cup {SubSeq(path, 1, k - 1) :
                 k \in {n \in 2..Len(path) : path[n] = "/"}}

\* os.Open: the file or directory must exist and be readable by its owner.
Open(fs, path) ==
    LET e == Lookup(fs, path)
    IN  IF e.kind = "none" THEN OtherError(<<"ENOENT">>)
        ELSE IF e.mode \notin {"0755", "0644", "0444", "0600", "0700"}
        THEN OtherError(<<"EACCES">>)
        ELSE Nil

\* os.MkdirAll(dir, 0755): the missing directories are made; a file in the
\* way is an error.
MkdirAllAt(fs, dir) ==
    IF \E a \in Ancestors(dir) : Lookup(fs, a).kind = "file"
    THEN [fs |-> fs, err |-> OtherError(<<"ENOTDIR">>)]
    ELSE [fs |-> fs \cup {DirectoryAt(a) :
                            a \in {b \in Ancestors(dir) :
                                      Lookup(fs, b).kind = "none"}},
          err |-> Nil]

\* os.OpenFile(path, O_CREATE|O_WRONLY|O_TRUNC, mode): a new file gets mode,
\* an existing one is emptied and keeps its mode.
OpenFile(fs, path, mode) ==
    LET e == Lookup(fs, path)
    IN  IF e.kind = "dir" THEN [fs |-> fs, err |-> OtherError(<<"EISDIR">>)]
        ELSE IF e.kind = "file" /\ ~Writable(e.mode)
        THEN [fs |-> fs, err |-> OtherError(<<"EACCES">>)]
        ELSE IF e.kind = "file"
        THEN [fs |-> (fs \ {e}) \cup {RegularFile(path, <<>>, e.mode)},
              err |-> Nil]
        ELSE [fs |-> fs \cup {RegularFile(path, <<>>, mode)}, err |-> Nil]

\* io.Copy(dstFile, srcFile): what the source holds when it is read.
Copy(fs, dst, src) ==
    LET s == Lookup(fs, src)
        d == Lookup(fs, dst)
    IN  IF s.kind = "dir" THEN [fs |-> fs, err |-> OtherError(<<"EISDIR">>)]
        ELSE [fs |-> (fs \ {d}) \cup {RegularFile(dst, s.content, d.mode)},
              err |-> Nil]

Escapes(filename, which) ==
    OtherError(<<"path ">> \o filename \o <<" escapes ">> \o <<which>>
                  \o <<" directory">>)

\* What CopyFileToWorktree returns, with the disk and the file system calls.
Copied(fs, e, ops) == [fs |-> fs, err |-> e, ops |-> ops]

\* Mutant: the prefix is compared without the separator.
CopyFileToWorktree_PrefixOnly(fs, cwd, srcDir, dstDir, filename) ==
    With(Join(srcDir, filename), LAMBDA srcPath :
    With(Join(dstDir, filename), LAMBDA dstPath :
    With(Abs(cwd, srcPath), LAMBDA srcAbs :
    With(Abs(cwd, dstPath), LAMBDA dstAbs :
    With(<<FileOp("Open", srcPath)>>, LAMBDA o1 :
    With(o1 \o <<FileOp("MkdirAll", Dir(dstPath))>>, LAMBDA o2 :
    With(o2 \o <<FileOp("OpenFile", dstPath)>>, LAMBDA o3 :
    IF ~HasPrefix(srcAbs, srcDir) /\ srcAbs # srcDir
    THEN Copied(fs, Escapes(filename, "source"), <<>>)
    ELSE IF ~HasPrefix(dstAbs, dstDir) /\ dstAbs # dstDir
    THEN Copied(fs, Escapes(filename, "destination"), <<>>)
    ELSE IF Open(fs, srcAbs) # Nil THEN Copied(fs, Open(fs, srcAbs), o1)
    ELSE With(MkdirAllAt(fs, Dir(dstAbs)), LAMBDA made :
         IF made.err # Nil THEN Copied(made.fs, made.err, o2)
         ELSE With(OpenFile(made.fs, dstAbs, Lookup(fs, srcAbs).mode),
                   LAMBDA dstFile :
              IF dstFile.err # Nil THEN Copied(dstFile.fs, dstFile.err, o3)
              ELSE With(Copy(dstFile.fs, dstAbs, srcAbs), LAMBDA copy :
                   Copied(copy.fs, copy.err, o3)))))))))))

CopyFileToWorktree(fs, cwd, srcDir, dstDir, filename) ==
    With(Join(srcDir, filename), LAMBDA srcPath :
    With(Join(dstDir, filename), LAMBDA dstPath :
    With(Abs(cwd, srcPath), LAMBDA srcAbs :
    With(Abs(cwd, dstPath), LAMBDA dstAbs :
    With(<<FileOp("Open", srcPath)>>, LAMBDA o1 :
    With(o1 \o <<FileOp("MkdirAll", Dir(dstPath))>>, LAMBDA o2 :
    With(o2 \o <<FileOp("OpenFile", dstPath)>>, LAMBDA o3 :
    IF ~HasPrefix(srcAbs, srcDir \o Separator) /\ srcAbs # srcDir
    THEN Copied(fs, Escapes(filename, "source"), <<>>)
    ELSE IF ~HasPrefix(dstAbs, dstDir \o Separator) /\ dstAbs # dstDir
    THEN Copied(fs, Escapes(filename, "destination"), <<>>)
    ELSE IF Open(fs, srcAbs) # Nil THEN Copied(fs, Open(fs, srcAbs), o1)
    ELSE With(MkdirAllAt(fs, Dir(dstAbs)), LAMBDA made :
         IF made.err # Nil THEN Copied(made.fs, made.err, o2)
         ELSE With(OpenFile(made.fs, dstAbs, Lookup(fs, srcAbs).mode),
                   LAMBDA dstFile :
              IF dstFile.err # Nil THEN Copied(dstFile.fs, dstFile.err, o3)
              ELSE With(Copy(dstFile.fs, dstAbs, srcAbs), LAMBDA copy :
                   Copied(copy.fs, copy.err, o3)))))))))))

\* The flags extractWorktreePath takes a value for.
pathValueFlags == {FlagB, FlagBigB, FlagReason}

RECURSIVE extractWorktreePathFrom(_, _, _)
extractWorktreePathFrom(rest, skipNext, pastFlags) ==
    IF rest = <<>> THEN <<>>
    ELSE LET arg == Head(rest)
         IN  IF skipNext
             THEN extractWorktreePathFrom(Tail(rest), FALSE, pastFlags)
             ELSE IF arg = DashDash
             THEN extractWorktreePathFrom(Tail(rest), FALSE, TRUE)
             ELSE IF ~pastFlags /\ arg \in pathValueFlags
             THEN extractWorktreePathFrom(Tail(rest), TRUE, pastFlags)
             ELSE IF ~pastFlags /\ HasPrefix(arg, <<"-">>)
             THEN extractWorktreePathFrom(Tail(rest), FALSE, pastFlags)
             ELSE arg

extractWorktreePath(a) == extractWorktreePathFrom(a, FALSE, FALSE)

\* Repo.Add of the earlier revision: git worktree add with the arguments
\* as given, then the path argument made absolute under the repository.
AddAsGiven(dir, a, child) ==
    LET cmd == Command(dir, <<git, worktree, add>> \o a)
        e == Run(child)
        path == extractWorktreePath(a)
    IN  IF e # Nil THEN [ran |-> <<cmd>>, path |-> <<>>, err |-> e]
        ELSE IF path = <<>> THEN [ran |-> <<cmd>>, path |-> <<>>, err |-> Nil]
        ELSE IF ~HasPrefix(path, Separator)
        THEN [ran |-> <<cmd>>, path |-> Join(dir, path), err |-> Nil]
        ELSE [ran |-> <<cmd>>, path |-> path, err |-> Nil]

\* strings.Split(s, "\n")
RECURSIVE SplitLines(_, _, _)
SplitLines(s, cur, acc) ==
    IF s = <<>> THEN Append(acc, cur)
    ELSE IF Head(s) = "\n" THEN SplitLines(Tail(s), <<>>, Append(acc, cur))
    ELSE SplitLines(Tail(s), Append(cur, Head(s)), acc)

\* The words git worktree list --porcelain starts its lines with; each
\* stands as one unit of the text.
worktreeLine == <<"worktree ">>
branchLine == <<"branch refs/heads/">>

RECURSIVE ScanWorktrees(_, _, _)
ScanWorktrees(lines, currentPath, branch) ==
    IF lines = <<>>
    THEN [path |-> <<>>, err |-> OtherError(<<"no worktree found for branch">>)]
    ELSE LET line == Head(lines)
             path == IF HasPrefix(line, worktreeLine)
                     THEN SubSeq(line, 2, Len(line))
                     ELSE currentPath
         IN  IF HasPrefix(line, branchLine) /\ SubSeq(line, 2, Len(line)) = branch
             THEN [path |-> path, err |-> Nil]
             ELSE ScanWorktrees(Tail(lines), path, branch)

\* Repo.WorktreePathForBranch: listing is what git worktree list printed.
WorktreePathForBranch(listing, branch) ==
    IF ~listing.ok
    THEN [path |-> <<>>,
          err |-> Wrap(<<"failed to list worktrees: ">>, ExitError(128))]
    ELSE ScanWorktrees(SplitLines(listing.stdout, <<>>, <<>>), <<>>, branch)

\* The loop of addCmd.RunE over cfg.CopyFiles: a copy that fails leaves a
\* warning and the loop goes on.
RECURSIVE CopyEach(_, _, _, _, _, _)
CopyEach(fs, cwd, mainPath, newPath, names, done) ==
    IF names = <<>> THEN [fs |-> fs, calls |-> done]
    ELSE With(CopyFileToWorktree(fs, cwd, mainPath, newPath, Head(names)),
              LAMBDA r :
         CopyEach(r.fs, cwd, mainPath, newPath, Tail(names),
                  Append(done, [file |-> Head(names), err |-> r.err,
                                ops |-> r.ops])))

\* What addCmd.RunE returned: its error, the git command it ran, the path
\* of the worktree, the copies it attempted and whether copying was skipped.
AddResult(e, ran, path, calls, skipped) ==
    [done |-> TRUE, op |-> "add", err |-> e, ran |-> ran, path |-> path,
     calls |-> calls, skipped |-> skipped]

\* Mutant: the first copy that fails ends the command with its error.
addCmdCopy_StopAtFailure(in, fs) ==
    IF \E k \in 1..Len(in.args) : in.args[k] \in helpFlags
    THEN [fs |-> fs, result |-> AddResult(Nil, <<>>, <<>>, <<>>, FALSE)]
    ELSE IF in.root = <<>>
    THEN [fs |-> fs,
          result |-> AddResult(OtherError(<<"not in a git repository">>),
                               <<>>, <<>>, <<>>, FALSE)]
    ELSE
    With(AddAsGiven(in.root, in.args, in.child), LAMBDA a :
    IF a.err # Nil
    THEN [fs |-> fs, result |-> AddResult(a.err, a.ran, <<>>, <<>>, FALSE)]
    ELSE IF a.path = <<>>
    THEN [fs |-> fs, result |-> AddResult(Nil, a.ran, <<>>, <<>>, FALSE)]
    ELSE
    With(MkdirAllAt(fs, a.path).fs, LAMBDA made :
    With(Load(in.cfgFile, in.cfgIO), LAMBDA l :
    IF l.err # NoError
    THEN [fs |-> made,
          result |-> AddResult(OtherError(<<l.err>>), a.ran, a.path, <<>>,
                               FALSE)]
    ELSE IF Len(l.cfg.CopyFiles.elems) = 0
    THEN [fs |-> made, result |-> AddResult(Nil, a.ran, a.path, <<>>, FALSE)]
    ELSE
    With(WorktreePathForBranch(in.listing, l.cfg.MainBranch), LAMBDA m :
    IF m.err # Nil
    THEN [fs |-> made, result |-> AddResult(Nil, a.ran, a.path, <<>>, TRUE)]
    ELSE
    With(CopyEach(made, in.cwd, m.path, a.path, l.cfg.CopyFiles.elems, <<>>),
         LAMBDA c :
    With({k \in 1..Len(c.calls) : c.calls[k].err # Nil}, LAMBDA failed :
    IF failed # {}
    THEN With(CHOOSE n \in failed : \A j \in failed : n <= j, LAMBDA k :
         [fs |-> c.fs,
          result |-> AddResult(c.calls[k].err, a.ran, a.path,
                               SubSeq(c.calls, 1, k), FALSE)])
    ELSE [fs |-> c.fs,
          result |-> AddResult(Nil, a.ran, a.path, c.calls, FALSE)])
    )))))

\* addCmd.RunE of the earlier revision.  git worktree add makes the
\* directory of the new worktree.
addCmdCopy(in, fs) ==
    IF \E k \in 1..Len(in.args) : in.args[k] \in helpFlags
    THEN [fs |-> fs, result |-> AddResult(Nil, <<>>, <<>>, <<>>, FALSE)]
    ELSE IF in.root = <<>>
    THEN [fs |-> fs,
          result |-> AddResult(OtherError(<<"not in a git repository">>),
                               <<>>, <<>>, <<>>, FALSE)]
    ELSE
    With(AddAsGiven(in.root, in.args, in.child), LAMBDA a :
    IF a.err # Nil
    THEN [fs |-> fs, result |-> AddResult(a.err, a.ran, <<>>, <<>>, FALSE)]
    ELSE IF a.path = <<>>
    THEN [fs |-> fs, result |-> AddResult(Nil, a.ran, <<>>, <<>>, FALSE)]
    ELSE
    With(MkdirAllAt(fs, a.path).fs, LAMBDA made :
    With(Load(in.cfgFile, in.cfgIO), LAMBDA l :
    IF l.err # NoError
    THEN [fs |-> made,
          result |-> AddResult(OtherError(<<l.err>>), a.ran, a.path, <<>>,
                               FALSE)]
    ELSE IF Len(l.cfg.CopyFiles.elems) = 0
    THEN [fs |-> made, result |-> AddResult(Nil, a.ran, a.path, <<>>, FALSE)]
    ELSE
    With(WorktreePathForBranch(in.listing, l.cfg.MainBranch), LAMBDA m :
    IF m.err # Nil
    THEN [fs |-> made, result |-> AddResult(Nil, a.ran, a.path, <<>>, TRUE)]
    ELSE
    With(CopyEach(made, in.cwd, m.path, a.path, l.cfg.CopyFiles.elems, <<>>),
         LAMBDA c :
    [fs |-> c.fs, result |-> AddResult(Nil, a.ran, a.path, c.calls, FALSE)]
    )))))

CopyInput(op, cwd, srcDir, dstDir, filename, a, root, child, cfg, io, l) ==
    [op |-> op, cwd |-> cwd, srcDir |-> srcDir, dstDir |-> dstDir,
     filename |-> filename, args |-> a, root |-> root, child |-> child,
     cfgFile |-> cfg, cfgIO |-> io, listing |-> l]

NoCopyInput ==
    CopyInput("none", <<"/">>, <<>>, <<>>, <<>>, <<>>, <<>>, Exited(0),
              Absent, "ok", Failed)

NotCopied == [done |-> FALSE, op |-> "none"]

\* Nothing is being copied.
CopyIdle ==
    /\ copyInput = NoCopyInput
    /\ files = {}
    /\ copyResult = NotCopied

\* Every component but c is at rest.
OthersIdle(c) ==
    /\ c = "add" \/ AddIdle
    /\ c = "config" \/ ConfigIdle
    /\ c = "fetch" \/ FetchIdle
    /\ c = "render" \/ RenderIdle
    /\ c = "install" \/ InstallIdle
    /\ c = "escape" \/ EscapeIdle
    /\ c = "exit" \/ ExitIdle
    /\ c = "cli" \/ CliIdle
    /\ c = "repo" \/ RepoIdle
    /\ c = "tool" \/ ToolIdle
    /\ c = "copy" \/ CopyIdle

(***************************************************************************)
(* `gwt add` as a state machine: one action per branch of buildAddArgs.    *)
(***************************************************************************)
InitAdd ==
    /\ args \in ArgLists
    /\ repoDir \in Roots
    /\ pc = "start"
    /\ scan = InitScan
    /\ gitArgs = <<>>
    /\ worktreePath = <<>>
    /\ err = NoError
    /\ OthersIdle("add")

Return(res) ==
    /\ gitArgs' = res.gitArgs
    /\ worktreePath' = res.worktreePath
    /\ err' = res.err
    /\ pc' = "done"

\* if len(args) == 0 { return nil, "", fmt.Errorf("requires a branch name") }
RejectEmpty ==
    /\ pc = "start"
    /\ Len(args) = 0
    /\ Return(Failure("requires a branch name"))
    /\ UNCHANGED <<args, repoDir, scan, addFrame>>

BeginScan ==
    /\ pc = "start"
    /\ Len(args) # 0
    /\ pc' = "scan"
    /\ UNCHANGED <<args, repoDir, scan, gitArgs, worktreePath, err, addFrame>>

InLoop == pc = "scan" /\ scan.i <= Len(args)

Continue ==
    /\ scan' = LoopBody(args, scan)
    /\ UNCHANGED <<args, repoDir, pc, gitArgs, worktreePath, err, addFrame>>

ScanPastFlags ==
    /\ InLoop
    /\ scan.pastFlags
    /\ Continue

ScanSeparator ==
    /\ InLoop
    /\ ~scan.pastFlags
    /\ args[scan.i] = DashDash
    /\ Continue

ScanFlagWithValue ==
    /\ InLoop
    /\ ~scan.pastFlags
    /\ args[scan.i] # DashDash
    /\ IsFlagWithValue(args[scan.i])
    /\ Continue

ScanValueFlag ==
    /\ InLoop
    /\ ~scan.pastFlags
    /\ args[scan.i] # DashDash
    /\ ~IsFlagWithValue(args[scan.i])
    /\ args[scan.i] \in valueFlags
    /\ scan.i + 1 <= Len(args)
    /\ Continue

\* return nil, "", fmt.Errorf("%s requires a value", arg)
ScanValueFlagMissing ==
    /\ InLoop
    /\ ~scan.pastFlags
    /\ args[scan.i] # DashDash
    /\ ~IsFlagWithValue(args[scan.i])
    /\ args[scan.i] \in valueFlags
    /\ scan.i + 1 > Len(args)
    /\ scan' = LoopBody(args, scan)
    /\ Return(Failure(scan'.err))
    /\ UNCHANGED <<args, repoDir, addFrame>>

ScanFlag ==
    /\ InLoop
    /\ ~scan.pastFlags
    /\ args[scan.i] # DashDash
    /\ ~IsFlagWithValue(args[scan.i])
    /\ args[scan.i] \notin valueFlags
    /\ IsFlag(args[scan.i])
    /\ Continue

ScanPositional ==
    /\ InLoop
    /\ ~scan.pastFlags
    /\ args[scan.i] # DashDash
    /\ ~IsFlagWithValue(args[scan.i])
    /\ args[scan.i] \notin valueFlags
    /\ ~IsFlag(args[scan.i])
    /\ Continue

\* The loop is over: count the positionals, derive the path, build the args.
Finish ==
    /\ pc = "scan"
    /\ scan.i > Len(args)
    /\ Return(Resolve(scan, repoDir))
    /\ UNCHANGED <<args, repoDir, scan, addFrame>>

NextAdd ==
    \/ RejectEmpty
    \/ BeginScan
    \/ ScanPastFlags
    \/ ScanSeparator
    \/ ScanFlagWithValue
    \/ ScanValueFlag
    \/ ScanValueFlagMissing
    \/ ScanFlag
    \/ ScanPositional
    \/ Finish

SpecAdd == InitAdd /\ [][NextAdd]_vars

\* The machine computes buildAddArgs.
AddTypeOK ==
    pc = "done" =>
        /\ gitArgs = buildAddArgs(args, repoDir).gitArgs
        /\ worktreePath = buildAddArgs(args, repoDir).worktreePath
        /\ err = buildAddArgs(args, repoDir).err

(***************************************************************************)
(* The configuration store as a state machine: calls of Save and Load on   *)
(* one repository directory, starting from any content of .gwt.json.       *)
(***************************************************************************)
\* What .gwt.json may hold before the first call: nothing, text that is not
\* JSON, JSON of the wrong shape, the empty object, or a saved configuration.
InitialFiles ==
    { Absent, NotJSON,
      Document(JNumber, JMissing),
      Document(JString(Main), JString(<<"a">>)),
      Document(JMissing, JMissing),
      Document(JString(<<"d", "e", "v">>), JArray(<< <<".", "e", "n", "v">> >>)) }

InitConfig ==
    /\ OthersIdle("config")
    /\ cfgFile \in InitialFiles
    /\ lastCall = NoCall
    /\ prevCall = NoCall

DoSave ==
    \E c \in Configs, io \in IOResults :
        LET r == Save(cfgFile, c, io)
        IN  /\ cfgFile' = r.file
            /\ lastCall' = Call("Save", c, r.err, cfgFile # Absent)
            /\ prevCall' = NoCall
            /\ UNCHANGED cfgFrame

DoLoad ==
    \E io \in IOResults :
        LET r == Load(cfgFile, io)
        IN  /\ lastCall' = Call("Load", r.cfg, r.err, cfgFile # Absent)
            /\ prevCall' = lastCall
            /\ UNCHANGED <<cfgFile, cfgFrame>>

NextConfig ==
    \/ DoSave
    \/ DoLoad

SpecConfig == InitConfig /\ [][NextConfig]_vars

(***************************************************************************)
(* The origin fetch refspec as a state machine: calls of ConfigureFetch on *)
(* one repository, and changes of the key made with git by someone else.   *)
(***************************************************************************)
mainOnly == <<"+refs/heads/main:refs/remotes/origin/main">>

padded == <<" ">> \o expected \o <<" ">>

\* What remote.origin.fetch may hold: nothing (a bare clone), the expected
\* refspec, another refspec, the expected one written with blanks around it,
\* or two values.
FetchConfigs ==
    { <<>>, <<expected>>, <<mainOnly>>, <<padded>>,
      <<mainOnly, expected>>, <<expected, mainOnly>> }

InitFetch ==
    /\ OthersIdle("fetch")
    /\ fetchConfig \in FetchConfigs
    /\ fetchCall = NoFetchCall

DoConfigureFetch ==
    /\ fetchCall.n < MaxFetchCalls
    /\ \E io \in IOResults :
        LET r == ConfigureFetch(fetchConfig, io)
            after == IF fetchCall.n = 0 THEN "none"
                     ELSE IF fetchCall.edited THEN "edit"
                     ELSE IF fetchCall.err = Nil THEN "ok"
                     ELSE "failed"
        IN  /\ fetchConfig' = r.values
            /\ fetchCall' = FetchCall(fetchCall.n + 1, after, r)
    /\ UNCHANGED fetchFrame

EditFetchConfig ==
    /\ fetchCall.n < MaxFetchCalls
    /\ \E v \in FetchConfigs :
        /\ v # fetchConfig
        /\ fetchConfig' = v
    /\ fetchCall' = [fetchCall EXCEPT !.edited = TRUE]
    /\ UNCHANGED fetchFrame

NextFetch ==
    \/ DoConfigureFetch
    \/ EditFetchConfig

SpecFetch == InitFetch /\ [][NextFetch]_vars

(***************************************************************************)
(* Rendering as a state machine: BuildCommand and Generate applied to one  *)
(* HookData.                                                               *)
(***************************************************************************)

HookFileNames == {dotEnv, <<"i", "t", "'", "s">>}

HookFileLists == UNION {[1..n -> HookFileNames] : n \in 0..MaxHookFiles}

BasePaths == {<<"/", "r">>, <<"/", "o", "'", "r">>}

PackageManagers == {<<>>, npm, pnpm, yarn, bun}

VersionManagers == {<<>>, asdf, mise}

HookDatas ==
    {HookData(b, f, v, p) : b \in BasePaths, f \in HookFileLists,
                            v \in VersionManagers, p \in PackageManagers}

InitRender ==
    /\ OthersIdle("render")
    /\ hookData \in HookDatas
    /\ rendered = NotRendered

Render ==
    /\ ~rendered.done
    /\ rendered' = Rendered(hookData)
    /\ UNCHANGED <<hookData, renderFrame>>

NextRender == Render

SpecRender == InitRender /\ [][NextRender]_vars

(***************************************************************************)
(* The hooks directory as a state machine: calls of Install on one hooks   *)
(* directory, which at first is missing, empty, or holds a post-checkout   *)
(* hook written by someone else.                                           *)
(***************************************************************************)
MaxInstalls == 3

hooksDirPath == <<"/", "r", "/", "h", "o", "o", "k", "s">>

\* The HookData of TestInstall, the one it installs over it, and the empty.
InstallDatas ==
    { HookData(<<"/", "r">>, <<dotEnv>>, <<>>, npm),
      HookData(<<>>, <<>>, <<>>, pnpm),
      HookData(<<>>, <<>>, <<>>, <<>>) }

\* Hooks of other origin: shorter and longer than any rendered script.
shortScript == << <<"#!/bin/sh">> >>

longScript ==
    << <<"#!/bin/sh">>, <<"a">>, <<"b">>, <<"c">>, <<"d">>, <<"e">>,
       <<"f">>, <<"g">> >>

PriorModes == {"0755", "0644", "0444"}

InitialHooks ==
    { HooksFs(FALSE, NoFile), HooksFs(TRUE, NoFile) }
        \cup { HooksFs(TRUE, File(c, mode)) :
                 c \in {shortScript, longScript}, mode \in PriorModes }

HookIOResults == {"ok", "mkdir", "write"}

InitInstall ==
    /\ OthersIdle("install")
    /\ hooksFs \in InitialHooks
    /\ installCall = NoInstall

DoInstall ==
    /\ installCall.n < MaxInstalls
    /\ \E data \in InstallDatas, force \in BOOLEAN, io \in HookIOResults :
        LET r == Install(hooksFs, hooksDirPath, data, force, io)
        IN  /\ hooksFs' = r.fs
            /\ installCall' = InstallCall(installCall.n + 1, hooksDirPath,
                                          data, force, hooksFs, r.err)
    /\ UNCHANGED installFrame

NextInstall == DoInstall

SpecInstall == InitInstall /\ [][NextInstall]_vars

(***************************************************************************)
(* Escaping as a state machine: shellEscape applied to one string over     *)
(* letters, single quotes, backslashes and blanks.                         *)
(***************************************************************************)
MaxEscapeLen == 4

EscapeAlphabet == {"a", "'", "\\", " "}

EscapeInputs == UNION {[1..n -> EscapeAlphabet] : n \in 0..MaxEscapeLen}

InitEscape ==
    /\ OthersIdle("escape")
    /\ escInput \in EscapeInputs
    /\ escaped = NotEscaped

Escape ==
    /\ ~escaped.done
    /\ escaped' = Escaped(escInput)
    /\ UNCHANGED <<escInput, escFrame>>

NextEscape == Escape

SpecEscape == InitEscape /\ [][NextEscape]_vars

(***************************************************************************)
(* ExitCode as a state machine: ExitCode applied to one error, which is    *)
(* nil, an exit error, another error, or one of the two wrapped.           *)
(***************************************************************************)
MaxExitCode == 15

MaxWrapDepth == 2

RECURSIVE Wrapped(_, _)
Wrapped(e, n) ==
    IF n = 0 THEN e
    ELSE Wrap(<<"git worktree add failed: ">>, Wrapped(e, n - 1))

BaseErrors ==
    {OtherError(<<"something">>)}
        \cup {ExitError(code) : code \in (0..MaxExitCode) \cup {-1}}

ErrorInputs ==
    {Nil} \cup {Wrapped(e, n) : e \in BaseErrors, n \in 0..MaxWrapDepth}

InitExit ==
    /\ OthersIdle("exit")
    /\ exitInput \in ErrorInputs
    /\ exitResult = NoExitResult

CallExitCode ==
    /\ ~exitResult.done
    /\ exitResult' = ExitResult(exitInput)
    /\ UNCHANGED <<exitInput, exitFrame>>

NextExit == CallExitCode

SpecExit == InitExit /\ [][NextExit]_vars

(***************************************************************************)
(* The command line as a state machine: one invocation with `add` or with  *)
(* a subcommand left to git as first argument, and one call of WriteCdFile *)
(* as any command makes it.                                                *)
(***************************************************************************)
MaxCliArgs == 2

MaxChildCode == 2

prune == <<"p", "r", "u", "n", "e">>

Subcommands == {add, <<"l", "i", "s", "t">>, <<"l", "s">>, <<"r", "m">>, prune}

CliTokens ==
    { <<"a", "/", "b">>, <<"x">>, FlagB, DashDash,
      <<"-", "-", "h", "e", "l", "p">> }

CliArgLists == UNION {[1..n -> CliTokens] : n \in 0..MaxCliArgs}

OsArgs == {<<c>> \o a : c \in Subcommands, a \in CliArgLists}

CdFiles == {Unset, SetTo(<<>>), SetTo(<<"/", "t">>)}

Children ==
    {Exited(code) : code \in 0..MaxChildCode} \cup {Signalled, NotStarted}

Environs ==
    [cdFile : CdFiles, root : Roots \cup {<<>>}, child : Children]

CdPaths == {<<>>, <<"/", "r", "/", "x">>}

InitCli ==
    /\ OthersIdle("cli")
    /\ osArgs \in OsArgs
    /\ environ \in Environs
    /\ cliResult = NoCliResult

RunPassthrough ==
    /\ osArgs # <<>>
    /\ ~cliResult.done
    /\ ResolveAlias(osArgs[1]) \notin known
    /\ cliResult' = MainPassthrough(osArgs, environ)
    /\ UNCHANGED <<osArgs, environ, cliFrame>>

RunAdd ==
    /\ osArgs # <<>>
    /\ ~cliResult.done
    /\ ResolveAlias(osArgs[1]) = add
    /\ cliResult' = AddCmd(Tail(osArgs), environ)
    /\ UNCHANGED <<osArgs, environ, cliFrame>>

CallWriteCdFile ==
    /\ osArgs # <<>>
    /\ ~cliResult.done
    /\ \E path \in CdPaths :
        cliResult' = CliResult("WriteCdFile", <<>>, AddNotCalled, path,
                               WriteCdFile(environ.cdFile, path), 0)
    /\ UNCHANGED <<osArgs, environ, cliFrame>>

NextCli ==
    \/ RunPassthrough
    \/ RunAdd
    \/ CallWriteCdFile

SpecCli == InitCli /\ [][NextCli]_vars

(***************************************************************************)
(* Repository resolution as a state machine: NewRepo called once, in the   *)
(* container directory of a bare clone, inside one of its worktrees, in an *)
(* ordinary repository, or where a query fails.                            *)
(***************************************************************************)
container == <<"/", "c">>
bareStore == <<"/", "c", "/", ".", "b", "a", "r", "e">>
worktreeTop == <<"/", "c", "/", "w">>

WorkingDirs == {container, worktreeTop \o <<"/", "s">>}

BoolAnswers == {Failed, Prints(true), Prints(false)}

GitDirAnswers == {Failed, Prints(<<".", "b", "a", "r", "e">>), Prints(bareStore)}

TopLevelAnswers == {Failed, Prints(worktreeTop)}

CommonDirAnswers ==
    { Failed, Prints(bareStore), Prints(<<".", "b", "a", "r", "e">>),
      Prints(<<".", ".", "/", ".", "g", "i", "t">>) }

RepoEnvs ==
    { RepoEnv(cwd, b, g, t, c, cb) :
        cwd \in WorkingDirs, b \in BoolAnswers, g \in GitDirAnswers,
        t \in TopLevelAnswers, c \in CommonDirAnswers, cb \in BoolAnswers }

InitRepo ==
    /\ OthersIdle("repo")
    /\ repoEnv \in RepoEnvs
    /\ repoResult = NotResolved

CallNewRepo ==
    /\ repoResult = NotResolved
    /\ repoResult' = [done |-> TRUE, returned |-> NewRepo(repoEnv)]
    /\ UNCHANGED <<repoEnv, repoFrame>>

NextRepo == CallNewRepo

SpecRepo == InitRepo /\ [][NextRepo]_vars

(***************************************************************************)
(* `gwt clone` and `gwt init` as a state machine: one invocation of one    *)
(* handler.  A clone request meets a target directory that is absent or    *)
(* holds someone's file; an init request meets a repository with its       *)
(* refspec and hooks.  `gwt clone` without flags is answered by either     *)
(* revision of cloneCmd.                                                   *)
(***************************************************************************)
FlagSets ==
    LET m == NotGiven(<<"m", "a", "i", "n">>)
        n == NotGiven(<<>>)
        b == NotGiven(FALSE)
    IN  { NoFlags,
          Flags(Given(<<"d", "e", "v">>), n, b, n, n, b),
          Flags(m, Given(<<dotEnv>>), b, n, n, b),
          Flags(m, n, Given(TRUE), n, n, b),
          Flags(m, n, b, Given(mise), n, b),
          Flags(m, n, b, Given(<<"n", "v", "m">>), n, b),
          Flags(m, n, b, n, Given(npm), b),
          Flags(m, n, b, n, Given(bun), b),
          Flags(m, Given(<<dotEnv>>), b, Given(asdf), Given(pnpm), b),
          Flags(m, n, Given(TRUE), n, Given(bun), b) }

\* `gwt init` also takes --force.
Forced(f) == [f EXCEPT !["force"] = Given(TRUE)]

CloneUrls ==
    { <<"h", "/", "x", ".", "g", "i", "t">>, <<"g", ":", "y", "/">> }

CloneDirs == { <<>>, <<"c">> }

CloneFaults == {"none", "mkdir", "clone", "gitfile", "config", "fetch",
                "hookmkdir", "hookwrite"}

InitFaults == {"none", "config", "hookmkdir", "hookwrite"}

CommonDirs == {Failed, Prints(<<".", "b", "a", "r", "e">>)}

Templates ==
    { HooksFs(FALSE, NoFile), HooksFs(TRUE, NoFile),
      HooksFs(TRUE, File(shortScript, "0755")) }

CloneRequests ==
    { Request("clone", url, dir, <<"/">>, f, cd, NoRequest.repoEnv,
              World(fault, rm, common, t)) :
        url \in CloneUrls, dir \in CloneDirs, f \in FlagSets,
        cd \in {Unset, SetTo(<<"/", "t">>)}, fault \in CloneFaults,
        rm \in BOOLEAN, common \in CommonDirs, t \in Templates }

CloneSites ==
    { NoSite,
      Site(Directory({Entry("notes", "kept")}), <<>>, HooksFs(FALSE, NoFile)) }

InitRepoEnvs ==
    { RepoEnv(container, Failed, Failed, Failed, Failed, Failed),
      RepoEnv(container, Prints(false), Failed, Failed, Failed, Failed),
      RepoEnv(container, Prints(true), Prints(bareStore), Failed, Failed,
              Failed),
      RepoEnv(container, Prints(true), Prints(bareStore), Failed,
              Prints(bareStore), Failed),
      RepoEnv(container, Prints(true), Prints(<<".", "b", "a", "r", "e">>),
              Failed, Prints(bareStore), Prints(true)),
      RepoEnv(worktreeTop, Prints(false), Failed, Prints(worktreeTop),
              Prints(bareStore), Prints(true)),
      RepoEnv(<<"/", "r">>, Prints(false), Failed, Prints(<<"/", "r">>),
              Prints(<<".", "g", "i", "t">>), Prints(false)) }

InitRequests ==
    { Request("init", <<>>, <<>>, e.cwd, f, Unset, e,
              World(fault, FALSE, common, HooksFs(FALSE, NoFile))) :
        e \in InitRepoEnvs, f \in FlagSets \cup {Forced(g) : g \in FlagSets},
        fault \in InitFaults, common \in CommonDirs }

InitSites ==
    { Site(Directory({Entry(".bare", "directory"),
                      Entry(".git", "gitdir: ./.bare\n")}), fetch, hooks) :
        fetch \in {<<>>, <<expected>>, <<mainOnly>>, <<mainOnly, expected>>},
        hooks \in { HooksFs(FALSE, NoFile), HooksFs(TRUE, NoFile),
                    HooksFs(TRUE, File(shortScript, "0755")),
                    HooksFs(TRUE, File(longScript, "0444")) } }

InitTool ==
    /\ OthersIdle("tool")
    /\ \/ request \in CloneRequests /\ site \in CloneSites
       \/ request \in InitRequests /\ site \in InitSites
    /\ toolResult = NotRun

RunClone ==
    /\ ~toolResult.done
    /\ request.cmd = "clone"
    /\ LET r == cloneCmd(request, site)
       IN  site' = r.site /\ toolResult' = r.result
    /\ UNCHANGED <<request, toolFrame>>

RunCloneDefaultHook ==
    /\ ~toolResult.done
    /\ request.cmd = "clone"
    /\ request.flags = NoFlags
    /\ LET r == cloneCmdDefaultHook(request, site)
       IN  site' = r.site /\ toolResult' = r.result
    /\ UNCHANGED <<request, toolFrame>>

RunInit ==
    /\ ~toolResult.done
    /\ request.cmd = "init"
    /\ LET r == initCmd(request, site)
       IN  site' = r.site /\ toolResult' = r.result
    /\ UNCHANGED <<request, toolFrame>>

NextTool ==
    \/ RunClone
    \/ RunCloneDefaultHook
    \/ RunInit

SpecTool == InitTool /\ [][NextTool]_vars

(***************************************************************************)
(* One invocation of gwt: main sends it to the passthrough or to the       *)
(* handler of add, clone or init.                                          *)
(***************************************************************************)
InitGwt == InitCli \/ InitTool

NextGwt == NextCli \/ NextTool

SpecGwt == InitGwt /\ [][NextGwt]_vars

(***************************************************************************)
(* The file copy as a state machine: one call of CopyFileToWorktree with a *)
(* file name of up to MaxNameParts elements, one call of                   *)
(* extractWorktreePath, or one run of the earlier addCmd.RunE, on a disk   *)
(* that holds the main worktree /c/m, a sibling /c/mx and the new worktree *)
(* /c/w.                                                                   *)
(***************************************************************************)
MaxAddCopies == 2

mainTree == container \o <<"/", "m">>
sibling == container \o <<"/", "m", "x">>

NameParts == { <<".", ".">>, <<".">>, <<"f">>, <<"m", "x">>, <<"w">> }

CopyNames ==
    {JoinElems(parts) :
        parts \in UNION {[1..n -> NameParts] : n \in 0..MaxNameParts}}

SourceDirs == {mainTree, <<"/">>, <<"m">>}

DestinationDirs == {worktreeTop, mainTree}

BaseDisk ==
    { DirectoryAt(<<"/">>), DirectoryAt(container), DirectoryAt(mainTree),
      DirectoryAt(sibling), DirectoryAt(worktreeTop),
      RegularFile(mainTree \o <<"/", "f">>, <<"1">>, "0644"),
      RegularFile(mainTree \o <<"/", "u">>, <<"2">>, "0000"),
      RegularFile(sibling \o <<"/", "f">>, <<"secret">>, "0600"),
      RegularFile(container \o <<"/", "f">>, <<"above">>, "0644") }

Disks ==
    { BaseDisk,
      BaseDisk \cup {RegularFile(worktreeTop \o <<"/", "f">>, <<"old">>,
                                 "0644")} }

CopyCalls ==
    { CopyInput("CopyFileToWorktree", container, s, d, n, <<>>, <<>>,
                Exited(0), Absent, "ok", Failed) :
        s \in SourceDirs, d \in DestinationDirs, n \in CopyNames }

PathTokens ==
    { FlagB, FlagOrphan, FlagReason, DashDash, <<"-", "f">>, <<"a">>,
      <<"p">> }

ExtractCalls ==
    { CopyInput("extractWorktreePath", container, <<>>, <<>>, <<>>, a, <<>>,
                Exited(0), Absent, "ok", Failed) :
        a \in UNION {[1..n -> PathTokens] : n \in 0..MaxArgs} }

\* The files .gwt.json may name: one that is there, one that is missing,
\* one that may not be read and one outside the main worktree.
ConfiguredNames ==
    { <<"f">>, <<"g">>, <<"u">>, <<".", ".", "/", "f">> }

ConfigFiles ==
    { Absent, NotJSON }
        \cup { Marshal(Config(Main, Slice(l))) :
                 l \in UNION {[1..n -> ConfiguredNames] : n \in 1..MaxAddCopies} }

Listings ==
    { Failed,
      Prints(worktreeLine \o container \o <<"\n", "bare">>),
      Prints(worktreeLine \o container \o <<"\n", "bare", "\n", "\n">>
                \o worktreeLine \o mainTree
                \o <<"\n", "HEAD 1", "\n">> \o branchLine \o Main) }

GivenArgs ==
    { <<>>, << <<"w">> >>, <<FlagB, <<"x">>, <<"w">> >>, <<DashDash>>,
      << <<"-", "-", "h", "e", "l", "p">> >>, <<worktreeTop>> }

AddCalls ==
    { CopyInput("add", container, <<>>, <<>>, <<>>, a, root, child, cfg, io,
                l) :
        a \in GivenArgs, root \in {<<>>, container},
        child \in {Exited(0), Exited(128)}, cfg \in ConfigFiles,
        io \in IOResults, l \in Listings }

InitCopy ==
    /\ OthersIdle("copy")
    /\ copyInput \in CopyCalls \cup ExtractCalls \cup AddCalls
    /\ files \in Disks
    /\ copyResult = NotCopied

CallCopyFileToWorktree ==
    /\ ~copyResult.done
    /\ copyInput.op = "CopyFileToWorktree"
    /\ LET r == CopyFileToWorktree(files, copyInput.cwd, copyInput.srcDir,
                                   copyInput.dstDir, copyInput.filename)
       IN  /\ files' = r.fs
           /\ copyResult' = [done |-> TRUE, op |-> copyInput.op,
                             err |-> r.err, ops |-> r.ops]
    /\ UNCHANGED <<copyInput, copyFrame>>

CallExtractWorktreePath ==
    /\ ~copyResult.done
    /\ copyInput.op = "extractWorktreePath"
    /\ copyResult' = [done |-> TRUE, op |-> copyInput.op,
                      path |-> extractWorktreePath(copyInput.args)]
    /\ UNCHANGED <<copyInput, files, copyFrame>>

RunAddCopy ==
    /\ ~copyResult.done
    /\ copyInput.op = "add"
    /\ LET r == addCmdCopy(copyInput, files)
       IN  files' = r.fs /\ copyResult' = r.result
    /\ UNCHANGED <<copyInput, copyFrame>>

NextCopy ==
    \/ CallCopyFileToWorktree
    \/ CallExtractWorktreePath
    \/ RunAddCopy

SpecCopy == InitCopy /\ [][NextCopy]_vars

(***************************************************************************)
(* Vocabulary of the properties of buildAddArgs.                           *)
(***************************************************************************)
\* The slug of a branch name: every "/" becomes "-", nothing else changes.
Slug(b) == [k \in 1..Len(b) |-> IF b[k] = "/" THEN "-" ELSE b[k]]

StartsWithDash(tok) == Len(tok) >= 1 /\ tok[1] = "-"

Root == <<"/">>

\* root + "/" + name, written out.
Under(root, name) == root \o <<"/">> \o name

\* The directory holding a clean absolute path (the root is its own).
ParentDir(path) ==
    LET slashes == {k \in 1..Len(path) : path[k] = "/"}
        last == CHOOSE k \in slashes : \A m \in slashes : m <= k
    IN  IF last = 1 THEN Root ELSE SubSeq(path, 1, last - 1)

\* path is a proper descendant of the directory root.
IsStrictlyInside(path, root) ==
    LET base == IF root = Root THEN Root ELSE root \o <<"/">>
    IN  HasPrefix(path, base) /\ Len(path) > Len(base)

Accepted == pc = "done" /\ err = NoError

Rejected == pc = "done" /\ err # NoError

OneBranchArg == Len(args) = 1 /\ ~StartsWithDash(args[1])

\* What filepath.Join(root, slug) is, case by case.
PathFor(root, slug) ==
    IF slug \in {<<>>, <<".">>} THEN root
    ELSE IF slug = <<".", ".">> THEN ParentDir(root)
    ELSE IF root = Root THEN Root \o slug
    ELSE Under(root, slug)

(***************************************************************************)
(* C1.  As stated: for every branch name b, buildAddArgs([b], root)        *)
(* succeeds with the path root + "/" + slug(b).                            *)
(***************************************************************************)
C1_AnyBranchNameGivesRootSlashSlug ==
    (pc = "done" /\ Len(args) = 1) =>
        /\ err = NoError
        /\ worktreePath = Under(repoDir, Slug(args[1]))

\* C1 (amended).  For every branch name b that does not start with "-",
\* buildAddArgs([b], root) succeeds, and for every accepted argument list the
\* path is filepath.Join(root, slug of the resolved branch): root + "/" + slug
\* when root is not "/" and the slug is none of "", "." and "..", "/" + slug
\* under the root "/", root itself for the slugs "" and ".", and the parent
\* of root for the slug "..".
C1_PathIsJoinOfRootAndSlug ==
    /\ (pc = "done" /\ OneBranchArg) =>
          /\ err = NoError
          /\ worktreePath = PathFor(repoDir, Slug(args[1]))
          /\ (repoDir # Root /\ Slug(args[1]) \notin {<<>>, <<".">>, <<".", ".">>})
                => worktreePath = Under(repoDir, Slug(args[1]))
    /\ Accepted => worktreePath = PathFor(repoDir, Slug(ResolveBranch(scan)))

C1_Witness ==
    /\ pc = "done"
    /\ args = << <<"a", "/", "b">> >>
    /\ repoDir = <<"/", "r">>
    /\ worktreePath = <<"/", "r", "/", "a", "-", "b">>

(***************************************************************************)
(* C2.  For every accepted argument list the worktree path is strictly     *)
(* inside the repository root.                                             *)
(***************************************************************************)
C2_PathStrictlyInsideRoot ==
    Accepted => IsStrictlyInside(worktreePath, repoDir)

(***************************************************************************)
(* C3.  For every branch name b that does not start with "-",              *)
(* buildAddArgs([b], root) returns exactly [slug(b), b].                   *)
(***************************************************************************)
C3_SingleBranchArgs ==
    (pc = "done" /\ OneBranchArg) =>
        /\ err = NoError
        /\ gitArgs = <<Slug(args[1]), args[1]>>

C3_Witness ==
    /\ pc = "done"
    /\ args = << <<"a", "/", "b">> >>
    /\ gitArgs = << <<"a", "-", "b">>, <<"a", "/", "b">> >>

(***************************************************************************)
(* C4.  For every accepted argument list the rewritten arguments are the   *)
(* flag tokens of the input in their original order (a value-taking flag   *)
(* directly followed by its value), then the slug, then the optional       *)
(* start-point (after -b, -B or --orphan) or else the branch name; every   *)
(* input token other than a `--` separator appears in the output, and      *)
(* ["-b","feat/x","origin/main"] becomes ["-b","feat/x","feat-x",          *)
(* "origin/main"] with the path root/feat-x.                               *)
(***************************************************************************)
RECURSIVE IsSubsequence(_, _)
IsSubsequence(s, t) ==
    IF s = <<>> THEN TRUE
    ELSE IF t = <<>> THEN FALSE
    ELSE IF Head(s) = Head(t) THEN IsSubsequence(Tail(s), Tail(t))
    ELSE IsSubsequence(s, Tail(t))

Elements(s) == {s[k] : k \in 1..Len(s)}

BranchFlagGiven == scan.branchFlag \in {FlagB, FlagBigB, FlagOrphan}

\* A flag of the output that takes a value is directly followed by the token
\* that followed it in the input.
ValueFlagsKeepTheirValue ==
    \A k \in 1..Len(args) :
        LET before == SubSeq(args, 1, k - 1)
            st == ScanLoop(before, InitScan)
        IN  (/\ st.i = k
             /\ ~st.pastFlags
             /\ args[k] \in {FlagB, FlagBigB, FlagOrphan, FlagReason})
            => /\ gitArgs[Len(st.flags) + 1] = args[k]
               /\ gitArgs[Len(st.flags) + 2] = args[k + 1]

FeatX == <<"f", "e", "a", "t", "/", "x">>
OriginMain == <<"o", "r", "i", "g", "i", "n", "/", "m", "a", "i", "n">>

C4_RewrittenArgsOrder ==
    /\ Accepted =>
          LET slug == Slug(ResolveBranch(scan))
              nflags == Len(scan.flags)
          IN  /\ SubSeq(gitArgs, 1, nflags) = scan.flags
              /\ \A k \in 1..nflags :
                    StartsWithDash(scan.flags[k])
                    \/ (k > 1 /\ scan.flags[k - 1]
                                   \in {FlagB, FlagBigB, FlagOrphan, FlagReason})
              /\ IsSubsequence(scan.flags, args)
              /\ ValueFlagsKeepTheirValue
              /\ gitArgs[nflags + 1] = slug
              /\ IF BranchFlagGiven
                 THEN /\ Len(gitArgs) \in {nflags + 1, nflags + 2}
                      /\ SubSeq(gitArgs, nflags + 2, Len(gitArgs)) = scan.positional
                 ELSE /\ Len(gitArgs) = nflags + 2
                      /\ gitArgs[nflags + 2] = ResolveBranch(scan)
                      /\ scan.positional = <<gitArgs[nflags + 2]>>
              /\ \A k \in 1..Len(args) :
                    args[k] # DashDash => args[k] \in Elements(gitArgs)
              /\ Len(gitArgs) = Len(args) + 1 - (IF scan.pastFlags THEN 1 ELSE 0)
    /\ buildAddArgs(<<FlagB, FeatX, OriginMain>>, <<"/", "r">>) =
          [gitArgs |-> <<FlagB, FeatX, Slug(FeatX), OriginMain>>,
           worktreePath |-> <<"/", "r", "/">> \o Slug(FeatX),
           err |-> NoError]

C4_Witness ==
    /\ Accepted
    /\ args = <<FlagB, <<"a", "/", "b">>, <<"a">>>>
    /\ gitArgs = <<FlagB, <<"a", "/", "b">>, <<"a", "-", "b">>, <<"a">>>>

(***************************************************************************)
(* C5.  buildAddArgs fails, returning no arguments and no path, exactly    *)
(* when the argument list is empty, or a value-taking flag is the last     *)
(* token scanned in flag mode, or no branch-bearing flag was given and the *)
(* positional tokens are not exactly one, or a branch-bearing flag was     *)
(* given and there is more than one positional token.                      *)
(***************************************************************************)
ValueFlagIsLastToken ==
    /\ Len(args) >= 1
    /\ scan.i = Len(args)
    /\ ~scan.pastFlags
    /\ args[Len(args)] \in {FlagB, FlagBigB, FlagOrphan, FlagReason}

C5_FailsExactlyWhen ==
    pc = "done" =>
        /\ Rejected <=>
              \/ Len(args) = 0
              \/ ValueFlagIsLastToken
              \/ (~BranchFlagGiven /\ Len(scan.positional) # 1)
              \/ (BranchFlagGiven /\ Len(scan.positional) > 1)
        /\ Rejected => (gitArgs = <<>> /\ worktreePath = <<>>)
        /\ Accepted => (gitArgs # <<>> /\ worktreePath # <<>>)

C5_Witness ==
    /\ Rejected
    /\ BranchFlagGiven
    /\ Len(scan.positional) = 2
    /\ err = "too many positional arguments"

(***************************************************************************)
(* C6.  Once a `--` has been scanned in flag mode every remaining token is *)
(* positional, whatever it looks like: no later token is recorded as a     *)
(* flag, consumed as a flag value or captured as a branch-flag value.      *)
(***************************************************************************)
AfterSeparatorStep ==
    scan.pastFlags =>
        /\ scan'.pastFlags
        /\ scan'.flags = scan.flags
        /\ scan'.branchFlag = scan.branchFlag
        /\ scan'.branchValue = scan.branchValue
        /\ scan'.err = scan.err
        /\ \/ scan' = scan
           \/ /\ scan'.i = scan.i + 1
              /\ scan'.positional = Append(scan.positional, args[scan.i])

\* The tokens after the separator are the last positionals, in order.
TailIsPositional ==
    (pc = "done" /\ scan.pastFlags /\ scan.err = NoError) =>
        \E k \in 1..Len(args) :
            LET tail == SubSeq(args, k + 1, Len(args))
                st == ScanLoop(SubSeq(args, 1, k - 1), InitScan)
            IN  /\ args[k] = DashDash
                /\ st.i = k
                /\ ~st.pastFlags
                /\ scan.flags = st.flags
                /\ scan.branchFlag = st.branchFlag
                /\ scan.branchValue = st.branchValue
                /\ scan.positional = st.positional \o tail

C6_AfterSeparatorAllPositional ==
    [][AfterSeparatorStep]_vars /\ []TailIsPositional

C6_Witness ==
    /\ Accepted
    /\ args = <<FlagOrphan \o <<"=", "a", "/", "b">>, DashDash, FlagB>>
    /\ scan.positional = <<FlagB>>
    /\ gitArgs = <<FlagOrphan \o <<"=", "a", "/", "b">>, <<"a", "-", "b">>, FlagB>>

(***************************************************************************)
(* C7.  A branch-bearing flag written --flag=value resolves the same       *)
(* branch and the same worktree path as the two tokens --flag value with   *)
(* the same remaining arguments; any other --x=value token is passed       *)
(* through as a flag and is never counted as positional.                   *)
(***************************************************************************)
OrphanEquals == FlagOrphan \o <<"=">>

\* args with the token at k, --orphan=v, replaced by the two tokens --orphan v.
TwoTokenForm(k) ==
    SubSeq(args, 1, k - 1)
        \o <<FlagOrphan, SubSeq(args[k], Len(OrphanEquals) + 1, Len(args[k]))>>
        \o SubSeq(args, k + 1, Len(args))

SameBranchAndPath(a1, a2) ==
    LET r1 == buildAddArgs(a1, repoDir)
        r2 == buildAddArgs(a2, repoDir)
        s1 == ScanLoop(a1, InitScan)
        s2 == ScanLoop(a2, InitScan)
    IN  /\ r1.err = r2.err
        /\ r1.worktreePath = r2.worktreePath
        /\ s1.branchFlag = s2.branchFlag
        /\ s1.branchValue = s2.branchValue
        /\ s1.positional = s2.positional
        /\ r1.err = NoError => ResolveBranch(s1) = ResolveBranch(s2)

EqualsFormMatchesTwoTokens ==
    (/\ InLoop
     /\ ~scan.pastFlags
     /\ HasPrefix(args[scan.i], OrphanEquals))
    => SameBranchAndPath(args, TwoTokenForm(scan.i))

\* A --x=value token looked at in flag mode goes to the flags.
EqualsFormStep ==
    (/\ InLoop
     /\ ~scan.pastFlags
     /\ HasPrefix(args[scan.i], DashDash)
     /\ \E k \in 1..Len(args[scan.i]) : args[scan.i][k] = "=")
    => \/ scan' = scan
       \/ /\ scan'.flags = Append(scan.flags, args[scan.i])
          /\ scan'.positional = scan.positional
          /\ scan'.i = scan.i + 1
          /\ IF HasPrefix(args[scan.i], OrphanEquals)
             THEN /\ scan'.branchFlag = FlagOrphan
                  /\ OrphanEquals \o scan'.branchValue = args[scan.i]
             ELSE /\ scan'.branchFlag = scan.branchFlag
                  /\ scan'.branchValue = scan.branchValue

C7_EqualsFormOfBranchFlag ==
    []EqualsFormMatchesTwoTokens /\ [][EqualsFormStep]_vars

C7_Witness ==
    /\ Accepted
    /\ args = <<FlagReason \o <<"=", "a">>, FlagOrphan \o <<"=", "a", "/", "b">>>>
    /\ scan.positional = <<>>
    /\ worktreePath = repoDir \o <<"/", "a", "-", "b">>
    /\ buildAddArgs(<<FlagReason \o <<"=", "a">>, FlagOrphan, <<"a", "/", "b">>>>,
                    repoDir).worktreePath = worktreePath

(***************************************************************************)
(* Vocabulary of the properties of the configuration store.                *)
(***************************************************************************)
\* MainBranch "main" and no copy files.
EqualsDefault(c) == c.MainBranch = <<"m", "a", "i", "n">> /\ c.CopyFiles.elems = <<>>

TheDefault ==
    [MainBranch |-> <<"m", "a", "i", "n">>,
     CopyFiles |-> [isNil |-> TRUE, elems |-> <<>>]]

FileExists == cfgFile.kind # "absent"

\* Content that is not a configuration: not JSON, or JSON whose main_branch
\* is not a string or whose copy_files is not a list.
Malformed(file) ==
    \/ file.kind = "syntax"
    \/ /\ file.kind = "json"
       /\ \/ file.main_branch.t \in {"number", "array"}
          \/ file.copy_files.t \in {"number", "string"}

SavedThenLoaded ==
    /\ prevCall.op = "Save"
    /\ prevCall.err = NoError
    /\ lastCall.op = "Load"
    /\ lastCall.err = NoError

(***************************************************************************)
(* C8.  For every non-default configuration cfg, Save(dir, cfg) followed   *)
(* by Load(dir) returns the same MainBranch and the same CopyFiles         *)
(* sequence.                                                               *)
(***************************************************************************)
C8_SaveLoadRoundTrip ==
    (SavedThenLoaded /\ ~EqualsDefault(prevCall.cfg)) =>
        /\ lastCall.cfg.MainBranch = prevCall.cfg.MainBranch
        /\ lastCall.cfg.CopyFiles.elems = prevCall.cfg.CopyFiles.elems

(***************************************************************************)
(* C9.  After Save(dir, cfg) returns without error for a cfg equal to the  *)
(* default, dir/.gwt.json does not exist, whether or not it existed        *)
(* before; when it was already absent Save returns no error and creates    *)
(* nothing.                                                                *)
(***************************************************************************)
C9_SaveDefaultLeavesNoFile ==
    (lastCall.op = "Save" /\ EqualsDefault(lastCall.cfg)) =>
        /\ lastCall.err = NoError => ~FileExists
        /\ ~lastCall.existed => (lastCall.err = NoError /\ ~FileExists)

C9_Witness ==
    /\ lastCall.op = "Save"
    /\ lastCall.cfg.MainBranch = <<"m", "a", "i", "n">>
    /\ lastCall.cfg.CopyFiles = [isNil |-> FALSE, elems |-> <<>>]
    /\ lastCall.existed
    /\ lastCall.err = NoError
    /\ ~FileExists

(***************************************************************************)
(* C10.  Load(dir) returns the default configuration and no error when     *)
(* dir/.gwt.json does not exist, and returns an error, never the default   *)
(* configuration, when the file exists but its content is malformed.       *)
(***************************************************************************)
C10_LoadMissingOrMalformed ==
    lastCall.op = "Load" =>
        /\ ~FileExists => (lastCall.cfg = TheDefault /\ lastCall.err = NoError)
        /\ (FileExists /\ Malformed(cfgFile)) =>
              /\ lastCall.err # NoError
              /\ ~EqualsDefault(lastCall.cfg)

C10_Witness ==
    /\ lastCall.op = "Load"
    /\ lastCall.existed
    /\ cfgFile.kind = "json"
    /\ cfgFile.main_branch.t = "string"
    /\ cfgFile.copy_files.t = "string"
    /\ lastCall.err = "UnmarshalTypeError"
    /\ lastCall.cfg.MainBranch = <<>>

(***************************************************************************)
(* C11: ConfigureFetch is idempotent: after a call that returned nil the   *)
(* origin fetch refspec is +refs/heads/*:refs/remotes/origin/*; a call     *)
(* made right after a successful one, with no change in between, runs no   *)
(* `git config` write and leaves the refspec as it was; a call whose read  *)
(* of the current value failed goes on to write the expected value.        *)
(* The first part fails: a value that differs from the expected one only   *)
(* by surrounding white space passes the trimmed comparison unwritten.     *)
(***************************************************************************)
FetchSucceeded == fetchCall.n > 0 /\ fetchCall.err = Nil

RefspecIsExpected == fetchConfig = <<expected>>

C11_SuccessLeavesExpected ==
    FetchSucceeded /\ ~fetchCall.edited => RefspecIsExpected

C11_SecondCallWritesNothing ==
    fetchCall.n > 0 /\ fetchCall.after = "ok" /\ ~fetchCall.edited
        => ~fetchCall.setRan /\ fetchCall.err = Nil

C11_FailedReadWrites ==
    fetchCall.n > 0 /\ fetchCall.readFailed => fetchCall.setRan

C11_ConfigureFetchIdempotent ==
    /\ C11_SuccessLeavesExpected
    /\ C11_SecondCallWritesNothing
    /\ C11_FailedReadWrites

(***************************************************************************)
(* C12: Install with force = false on a hooks directory that holds         *)
(* post-checkout returns an error whose text names the path of the hook    *)
(* and mentions the force option, and leaves the hook file and the hooks   *)
(* directory as they were.                                                 *)
(***************************************************************************)
InstallMade == installCall.n > 0

HookExistedBefore == installCall.before.dir /\ installCall.before.hook.exists

ErrorText(e) == IF e.kind = "error" THEN e.why ELSE <<>>

NamesPathAndForce(e) ==
    /\ Contains(ErrorText(e), Join(installCall.hooksDir, postCheckout))
    /\ Contains(ErrorText(e), <<"-", "-", "f", "o", "r", "c", "e">>)

C12_ExistingHookRefusedWithoutForce ==
    InstallMade /\ ~installCall.force /\ HookExistedBefore
        => /\ NamesPathAndForce(installCall.err)
           /\ hooksFs = installCall.before

C12_Witness ==
    /\ InstallMade /\ ~installCall.force /\ HookExistedBefore
    /\ installCall.before.hook.content = longScript
    /\ installCall.data.PackageManager = npm

(***************************************************************************)
(* C13: after a successful Install with force = true over an existing      *)
(* hook, the content of post-checkout is exactly Generate(data) of the new *)
(* data, whatever the previous content, shorter or longer.                 *)
(***************************************************************************)
ForcedOverExisting ==
    /\ InstallMade /\ installCall.force /\ HookExistedBefore
    /\ installCall.err = Nil

C13_ForceReplacesWholeContent ==
    ForcedOverExisting
        => /\ hooksFs.hook.exists
           /\ hooksFs.hook.content = Generate(installCall.data)

C13_Witness ==
    /\ ForcedOverExisting
    /\ Len(installCall.before.hook.content) > Len(Generate(installCall.data))
    /\ hooksFs.hook.content = Generate(installCall.data)

(***************************************************************************)
(* C14: after every successful Install (into a missing hooks directory,    *)
(* into an empty one, or with force over an existing hook of any prior     *)
(* permission) the hooks directory exists and post-checkout has mode 0755  *)
(* and content Generate(data).  The mode fails for a hook that existed:    *)
(* os.WriteFile gives its permission argument to a file it creates only.   *)
(***************************************************************************)
C14_InstalledHookIsExecutable ==
    InstallMade /\ installCall.err = Nil
        => /\ hooksFs.dir
           /\ hooksFs.hook.exists
           /\ hooksFs.hook.mode = "0755"
           /\ hooksFs.hook.content = Generate(installCall.data)

(***************************************************************************)
(* C15: BuildCommand returns the empty string for an empty package         *)
(* manager, "yarn build" for "yarn", and "<manager> run build" for every   *)
(* other non-empty package manager name.                                   *)
(***************************************************************************)
YarnBuild == <<"y", "a", "r", "n", " ", "b", "u", "i", "l", "d">>

RunBuild == <<" ", "r", "u", "n", " ", "b", "u", "i", "l", "d">>

C15_BuildCommandByManager ==
    rendered.done
        => LET pm == hookData.PackageManager
           IN  /\ pm = <<>> => rendered.build = <<>>
               /\ pm = yarn => rendered.build = YarnBuild
               /\ pm # <<>> /\ pm # yarn => rendered.build = pm \o RunBuild

C15_Witness ==
    /\ rendered.done
    /\ hookData.PackageManager = yarn
    /\ rendered.build = YarnBuild

(***************************************************************************)
(* C16: for every string s, shellEscape(s) between two single quotes is    *)
(* shell text that a POSIX shell reads as one word equal to s, with the    *)
(* quoting closed at the end; and shellEscape(s) is s with each single     *)
(* quote replaced by the four characters '\'' and nothing else changed.    *)
(***************************************************************************)
\* A POSIX shell reading one word: outside quotes a single quote opens a
\* quoted stretch, a backslash makes the next character literal and a blank
\* ends the word; inside single quotes every character up to the next single
\* quote is literal.
RECURSIVE ShellRead(_, _, _)
ShellRead(text, quoted, word) ==
    IF text = <<>> THEN [closed |-> ~quoted, oneWord |-> TRUE, word |-> word]
    ELSE LET c == Head(text)
             rest == Tail(text)
         IN  IF quoted
             THEN IF c = "'" THEN ShellRead(rest, FALSE, word)
                  ELSE ShellRead(rest, TRUE, Append(word, c))
             ELSE IF c = "'" THEN ShellRead(rest, TRUE, word)
             ELSE IF c = "\\"
                  THEN IF rest = <<>>
                       THEN [closed |-> FALSE, oneWord |-> TRUE, word |-> word]
                       ELSE ShellRead(Tail(rest), FALSE, Append(word, Head(rest)))
             ELSE IF c = " "
                  THEN [closed |-> TRUE, oneWord |-> FALSE, word |-> word]
             ELSE ShellRead(rest, FALSE, Append(word, c))

RECURSIVE EachQuoteReplaced(_)
EachQuoteReplaced(s) ==
    IF s = <<>> THEN <<>>
    ELSE (IF Head(s) = "'" THEN <<"'", "\\", "'", "'">> ELSE <<Head(s)>>)
            \o EachQuoteReplaced(Tail(s))

InSingleQuotes(text) == <<"'">> \o text \o <<"'">>

C16_QuotedEscapeReadsBack ==
    escaped.done
        => /\ ShellRead(InSingleQuotes(escaped.text), FALSE, <<>>)
                = [closed |-> TRUE, oneWord |-> TRUE, word |-> escInput]
           /\ escaped.text = EachQuoteReplaced(escInput)

C16_Witness ==
    /\ escaped.done
    /\ escInput = <<"'", "'", "\\", "a">>
    /\ ShellRead(InSingleQuotes(escaped.text), FALSE, <<>>).word = escInput

(***************************************************************************)
(* C17: ExitCode(err) is 0 when err is nil, the embedded exit code when    *)
(* err is or wraps a process-exit error, and 1 for every other error.      *)
(* The first part fails: the function has no case for nil and returns 1.   *)
(***************************************************************************)
RECURSIVE IsProcessExit(_)
IsProcessExit(e) ==
    \/ e.kind = "ExitError"
    \/ e.kind = "wrap" /\ IsProcessExit(e.inner)

RECURSIVE EmbeddedCode(_)
EmbeddedCode(e) == IF e.kind = "wrap" THEN EmbeddedCode(e.inner) ELSE e.code

C17_ExitCodeMapping ==
    exitResult.done
        => exitResult.code =
              (IF exitInput = Nil THEN 0
               ELSE IF IsProcessExit(exitInput) THEN EmbeddedCode(exitInput)
               ELSE 1)

(***************************************************************************)
(* C18: for a first argument the tool does not recognize (no command of    *)
(* its own and no alias), git is run once, from the resolved repository    *)
(* root, as `git worktree` followed by the user's arguments as given, and  *)
(* the tool exits with the child's exit code: 0 for 0, n for n, and 1 when *)
(* the child could not be started.                                         *)
(***************************************************************************)
Unrecognized(subcmd) == subcmd \notin known /\ subcmd \notin DOMAIN aliases

RootResolved == environ.root # <<>>

PassedThrough == cliResult.done /\ cliResult.handler = "passthrough"

C18_PassthroughKeepsArgsAndExitCode ==
    PassedThrough /\ Unrecognized(osArgs[1]) /\ RootResolved
        => /\ cliResult.ran
                = <<Command(environ.root, <<git, worktree>> \o osArgs)>>
           /\ environ.child.kind = "exit"
                => cliResult.exit = environ.child.code
           /\ environ.child.kind = "notstarted" => cliResult.exit = 1

C18_Witness ==
    /\ PassedThrough /\ RootResolved
    /\ osArgs = <<prune, <<"x">>, DashDash>>
    /\ environ.child = Exited(2)
    /\ cliResult.exit = 2

(***************************************************************************)
(* C19: when buildAddArgs rejects the arguments of `add`, no git command   *)
(* is run in that invocation, Repo.Add returns the empty path with the     *)
(* error, and nothing is written to the file GWT_CD_FILE names.            *)
(***************************************************************************)
AddArgs == Tail(osArgs)

AddRejects ==
    /\ cliResult.handler = "add"
    /\ cliResult.add.called
    /\ buildAddArgs(AddArgs, environ.root).err # NoError

C19_RejectedAddRunsNothing ==
    cliResult.done /\ AddRejects
        => /\ cliResult.ran = <<>>
           /\ cliResult.add.path = <<>>
           /\ cliResult.add.err # Nil
           /\ cliResult.written = <<>>

C19_Witness ==
    /\ cliResult.done /\ AddRejects
    /\ AddArgs = <<<<"x">>, FlagB>>
    /\ environ.cdFile = SetTo(<<"/", "t">>)
    /\ environ.child = Exited(0)

(***************************************************************************)
(* C20: the file GWT_CD_FILE names is written only when the variable is    *)
(* set to a non-empty value and the path is non-empty, and then with       *)
(* exactly the absolute path, no newline after it; with the variable unset *)
(* or empty, or the path empty, nothing is written.  For `add` run with    *)
(* the variable set, the file is written if and only if `git worktree add` *)
(* ran and succeeded, and the path written is the derived worktree path.   *)
(***************************************************************************)
CdFileNamed == environ.cdFile.set /\ environ.cdFile.value # <<>>

GitAddSucceeded == cliResult.ran # <<>> /\ environ.child = Exited(0)

C20_CdFileWrittenOnlyWithPath ==
    cliResult.done
        => /\ cliResult.written # <<>>
                => /\ CdFileNamed
                   /\ cliResult.path # <<>>
                   /\ HasPrefix(cliResult.path, Separator)
                   /\ cliResult.written
                        = <<Written(environ.cdFile.value, cliResult.path)>>
           /\ ~CdFileNamed \/ cliResult.path = <<>>
                => cliResult.written = <<>>
           /\ cliResult.handler = "add" /\ CdFileNamed
                => /\ cliResult.written # <<>> <=> GitAddSucceeded
                   /\ GitAddSucceeded
                        => cliResult.path
                             = buildAddArgs(AddArgs, environ.root).worktreePath

C20_Witness ==
    /\ cliResult.done /\ cliResult.handler = "add"
    /\ AddArgs = <<FlagB, <<"a", "/", "b">>>>
    /\ environ.root = <<"/", "r">>
    /\ cliResult.written
         = <<Written(<<"/", "t">>, <<"/", "r", "/", "a", "-", "b">>)>>

(***************************************************************************)
(* C21: when the git common directory is itself a bare repository, NewRepo *)
(* returns Dir = the parent of the common directory and IsBare = true,     *)
(* whatever the first bareness query and the first root candidate gave;    *)
(* when the common directory is not bare, Dir is the absolute form of the  *)
(* first candidate (git-dir if bare, top level otherwise) and IsBare is    *)
(* the answer of the first query.                                          *)
(***************************************************************************)
Resolved == repoResult.done /\ repoResult.returned.ok

Answer(q) == SubSeq(q.stdout, 1, Len(q.stdout) - 1)

\* The absolute form of a path the queries print.
Absolute(path) ==
    IF path = bareStore THEN bareStore
    ELSE IF path = worktreeTop THEN worktreeTop
    ELSE IF path = <<".", "b", "a", "r", "e">>
         THEN repoEnv.cwd \o <<"/">> \o path
    ELSE IF ParentDir(repoEnv.cwd) = Root THEN <<"/", ".", "g", "i", "t">>
    ELSE ParentDir(repoEnv.cwd) \o <<"/", ".", "g", "i", "t">>

CommonDirIsBare == Answer(repoEnv.commonIsBare) = true

C21_RootFromCommonDir ==
    Resolved
        => LET repo == repoResult.returned.repo
               firstBare == Answer(repoEnv.isBare) = true
               first == IF firstBare THEN repoEnv.gitDir ELSE repoEnv.topLevel
           IN  IF CommonDirIsBare
               THEN /\ repo.Dir = ParentDir(Absolute(Answer(repoEnv.commonDir)))
                    /\ repo.IsBare
               ELSE /\ repo.Dir = Absolute(Answer(first))
                    /\ repo.IsBare = firstBare

C21_Witness ==
    /\ Resolved
    /\ repoEnv.cwd = worktreeTop \o <<"/", "s">>
    /\ Answer(repoEnv.isBare) = false
    /\ repoEnv.commonDir = Prints(bareStore)
    /\ CommonDirIsBare
    /\ repoResult.returned.repo = Repo(container, TRUE)

(***************************************************************************)
(* Vocabulary of the properties of `gwt clone` and `gwt init`.             *)
(***************************************************************************)
\* The handler of cmd returns in this step.
Returns(cmd) ==
    ~toolResult.done /\ toolResult'.done /\ toolResult'.handler = cmd

\* main or addCmd.RunE returns in this step, having called NewRepo.
CliCallsNewRepo ==
    /\ ~cliResult.done /\ cliResult'.done
    /\ \/ cliResult'.handler = "passthrough"
       \/ /\ cliResult'.handler = "add"
          /\ \A k \in 2..Len(osArgs) : osArgs[k] \notin helpFlags

\* No query of this invocation's NewRepo fails.
Resolves == NewRepo(request.repoEnv).err = Nil

(***************************************************************************)
(* C22: when NewRepo fails, the invocation that called it (the             *)
(* passthrough, add or init) returns an error and exits with code 1, runs  *)
(* no git worktree command and no step after NewRepo, writes no file, and  *)
(* leaves the fetch configuration and the hooks as they were.              *)
(***************************************************************************)
C22_FailedResolutionDoesNothing ==
    [][ /\ (Returns("init") /\ ~Resolves) =>
              /\ toolResult'.err # Nil
              /\ toolResult'.exit = 1
              /\ toolResult'.ran = <<"NewRepo">>
              /\ toolResult'.written = <<>>
              /\ site' = site
        /\ (CliCallsNewRepo /\ environ.root = <<>>) =>
              /\ cliResult'.exit = 1
              /\ cliResult'.ran = <<>>
              /\ cliResult'.written = <<>>
              /\ site' = site
              /\ UNCHANGED <<fetchVars, installVars, cfgVars>> ]_vars

C22_Witness ==
    /\ toolResult.done
    /\ toolResult.handler = "init"
    /\ ~Resolves
    /\ request.repoEnv.isBare.ok
    /\ toolResult.exit = 1
    /\ site.hooks = HooksFs(TRUE, NoFile)

\* The handler ran the step.
Did(step) == \E k \in 1..Len(toolResult.ran) : toolResult.ran[k] = step

\* `gwt clone` has returned, and its call of Clone returned nil.
Cloned ==
    /\ toolResult.done
    /\ toolResult.handler = "clone"
    /\ Did("git fetch origin")
    /\ ~Did("RemoveAll")

\* An init flag was given on the command line.
InitFlagGiven == \E n \in initFlags : request.flags[n].changed

\* hook.Install wrote the post-checkout hook.
HookInstalled == Did("Install") /\ Stat(site.hooks)

(***************************************************************************)
(* C23: `gwt clone` installs a post-checkout hook only when one of --main, *)
(* --copy, --no-copy, --version-manager and --package-manager was given,   *)
(* and a clone that succeeds with one of them has installed it.  The       *)
(* cloneCmd of main.go installs the default hook without any flag.         *)
(***************************************************************************)
C23_HookOnlyWithInitFlags ==
    (toolResult.done /\ toolResult.handler = "clone") =>
        /\ HookInstalled => InitFlagGiven
        /\ (toolResult.err = Nil /\ InitFlagGiven) => HookInstalled

(***************************************************************************)
(* C24: after a Clone that returned nil, the directory holds .bare, the    *)
(* .git pointer file and a .gitignore whose content is "*\n".  No Clone of *)
(* the sources writes a .gitignore.                                        *)
(***************************************************************************)
C24_CloneWritesGitignore ==
    Cloned =>
        /\ \E e \in site.target.entries : e.name = ".bare"
        /\ Entry(".git", "gitdir: ./.bare\n") \in site.target.entries
        /\ Entry(".gitignore", "*\n") \in site.target.entries

\* Clone returns an error in this step: the handler returns after a step of
\* Clone failed.
CloneFails ==
    /\ Returns("clone")
    /\ toolResult'.err # Nil
    /\ \/ toolResult'.ran[Len(toolResult'.ran)] = "RemoveAll"
       \/ toolResult'.ran = <<"Mkdir">>

InitRefusesExistingHook ==
    /\ Returns("init")
    /\ Resolves
    /\ NewRepo(request.repoEnv).repo.IsBare
    /\ ~request.flags["force"].value
    /\ Stat(site.hooks)
    /\ toolResult'.err # Nil
    /\ toolResult'.ran[Len(toolResult'.ran)] = "Install"

(***************************************************************************)
(* C29: an init that fails because a post-checkout hook exists and --force *)
(* is not given leaves remote.origin.fetch and the hook as they were.      *)
(* setupHook calls ConfigureFetch before hook.Install looks for the hook.  *)
(***************************************************************************)
C29_FailedInitChangesNothing ==
    [][ InitRefusesExistingHook =>
          site'.fetch = site.fetch /\ site'.hooks = site.hooks ]_vars

\* --version-manager or --package-manager names none of the valid managers.
InvalidManagerGiven ==
    LET v == request.flags["version-manager"].value
        p == request.flags["package-manager"].value
    IN  \/ v # <<>> /\ v \notin validVersionManagers
        \/ p # <<>> /\ p \notin validPackageManagers

(***************************************************************************)
(* C30: `gwt clone` with an invalid --version-manager or --package-manager *)
(* returns the validation error before any step of Clone: no directory is  *)
(* made, git clone --bare is not run and no hook is installed.  cloneCmd   *)
(* validates the two values after Clone has returned.                      *)
(***************************************************************************)
C30_CloneValidatesBeforeCloning ==
    [][ (Returns("clone") /\ InvalidManagerGiven) =>
          /\ toolResult'.err \in {InvalidVersionManager, InvalidPackageManager}
          /\ toolResult'.ran = <<>>
          /\ site' = site ]_vars

(***************************************************************************)
(* Vocabulary of the properties of the file copy.                          *)
(***************************************************************************)
\* The elements of the absolute form of a path.
AbsoluteElems(path) ==
    CleanElems(SplitPath(Abs(copyInput.cwd, path), <<>>, <<>>), TRUE, <<>>)

\* filename joined to dir names dir or something below it.
StaysInside(dir, filename) ==
    LET d == AbsoluteElems(dir)
        p == AbsoluteElems(dir \o <<"/">> \o filename)
    IN  Len(p) >= Len(d) /\ SubSeq(p, 1, Len(d)) = d

CopyCalled(op) == ~copyResult.done /\ copyResult'.done /\ copyResult'.op = op

(***************************************************************************)
(* C25: when filename joined to srcDir names something outside srcDir, or  *)
(* joined to dstDir something outside dstDir, CopyFileToWorktree returns   *)
(* an error, makes no call of the file system and leaves every file as it  *)
(* was; and whenever it opens the destination file, both joined paths are  *)
(* inside their directories.                                               *)
(***************************************************************************)
C25_EscapingNamesAreRejected ==
    [][ CopyCalled("CopyFileToWorktree") =>
          LET inside ==
                /\ StaysInside(copyInput.srcDir, copyInput.filename)
                /\ StaysInside(copyInput.dstDir, copyInput.filename)
          IN  /\ ~inside => /\ copyResult'.err # Nil
                            /\ copyResult'.ops = <<>>
                            /\ files' = files
              /\ (\E k \in 1..Len(copyResult'.ops) :
                      copyResult'.ops[k].op = "OpenFile") => inside ]_vars

C25_Witness ==
    /\ copyResult.done
    /\ copyResult.op = "CopyFileToWorktree"
    /\ copyInput.srcDir = mainTree
    /\ copyInput.dstDir = mainTree
    /\ copyInput.filename = <<".", ".", "/", "m", "x", "/", "f">>
    /\ copyResult.err = Escapes(copyInput.filename, "source")
    /\ Lookup(files, sibling \o <<"/", "f">>).content = <<"secret">>

\* The configuration `gwt add` loads, and the main worktree git lists.
Configured == Load(copyInput.cfgFile, copyInput.cfgIO)

\* `gwt add` created the worktree and has files to copy from the main one.
CopiesConfiguredFiles ==
    /\ copyResult.done
    /\ copyResult.op = "add"
    /\ \A k \in 1..Len(copyInput.args) : copyInput.args[k] \notin helpFlags
    /\ copyInput.root # <<>>
    /\ copyInput.child = Exited(0)
    /\ extractWorktreePath(copyInput.args) # <<>>
    /\ Configured.err = NoError
    /\ Configured.cfg.CopyFiles.elems # <<>>
    /\ WorktreePathForBranch(copyInput.listing,
                             Configured.cfg.MainBranch).err = Nil

(***************************************************************************)
(* C26: once `gwt add` has created the worktree and goes through the       *)
(* configured copy files, it attempts every one of them in the configured  *)
(* order, whether or not an earlier copy failed, and returns nil.          *)
(***************************************************************************)
C26_CopyFailuresAreWarnings ==
    CopiesConfiguredFiles =>
        /\ copyResult.err = Nil
        /\ [k \in 1..Len(copyResult.calls) |-> copyResult.calls[k].file]
              = Configured.cfg.CopyFiles.elems

C26_Witness ==
    /\ CopiesConfiguredFiles
    /\ Len(copyResult.calls) = 2
    /\ copyResult.calls[1].err = OtherError(<<"ENOENT">>)
    /\ copyResult.calls[2].err = Nil
    /\ copyResult.err = Nil
    /\ Lookup(files, worktreeTop \o <<"/", "f">>).content = <<"1">>

\* The first token that is no flag before `--`, not `--` and not the value
\* of one of the flags -b, -B, --reason and --orphan.
RECURSIVE FirstPathToken(_, _)
FirstPathToken(rest, pastFlags) ==
    IF rest = <<>> THEN <<>>
    ELSE IF Head(rest) = DashDash THEN FirstPathToken(Tail(rest), TRUE)
    ELSE IF ~pastFlags /\ Head(rest) \in valueFlags
    THEN FirstPathToken(IF Len(rest) >= 2 THEN Tail(Tail(rest)) ELSE <<>>,
                        pastFlags)
    ELSE IF ~pastFlags /\ StartsWithDash(Head(rest))
    THEN FirstPathToken(Tail(rest), pastFlags)
    ELSE Head(rest)

(***************************************************************************)
(* C27: extractWorktreePath returns the first token that is neither a flag *)
(* before `--`, nor `--`, nor the value of -b, -B, --reason or --orphan,   *)
(* and the empty string when there is none.  The function does not take    *)
(* --orphan for a flag with a value.                                       *)
(***************************************************************************)
C27_PathIsFirstPositional ==
    (copyResult.done /\ copyResult.op = "extractWorktreePath") =>
        copyResult.path = FirstPathToken(copyInput.args, FALSE)

====
